---- MODULE Spec2Model ----
(***************************************************************************)
(* Model of the project tracker front end: the StepsPanel component        *)
(* (frontend/src/components/StepsPanel.tsx, first component of the file)   *)
(* and the App component (frontend/src/App.tsx), with the progress credits *)
(* of frontend/src/data.ts.                                                *)
(*                                                                         *)
(* React is modelled as follows.  A handler (a user event or the           *)
(* continuation of an awaited request) queues its set-state calls, the     *)
(* component renders, and the effects whose dependencies changed run in    *)
(* declaration order; their own set-state calls cause further commits      *)
(* until nothing changes.  One action of the model is one handler together *)
(* with the whole cascade of commits it causes (Settle).  Dependencies are *)
(* compared by identity, so the model keeps the identity facts the code    *)
(* depends on as tags (prop, stepsIsProp, synced, subsPropOf).             *)
(* An awaited request is a record in an in-flight set; its closure holds   *)
(* the values the code captured when it issued the request.                *)
(***************************************************************************)
EXTENDS Integers, Sequences, FiniteSets, TLC

\* ------------------------------------------------------------------ bounds
MaxClock == 2       \* Date.now() takes the values 1..MaxClock
MaxLen == 3         \* the longest steps / subtasks list a create may extend
MaxEdits == 2       \* edits the user makes in one session
MaxActiveFilters == 1   \* filters that differ from their default at the same time
MaxPieces == 3      \* pieces of text typed into a search box
MaxCalls == 1       \* saves and project deletes the dialogs make in one session
MaxChars == 7       \* characters typed one by one into a search box
MaxItems == 2       \* items of a collection the progress aggregate is asked for

\* --------------------------------------------------------------- constants
Null == 0           \* null / undefined of an id
NoWeight == -9      \* a step whose optional weight is absent

\* ----------------------------------------------------------------- helpers
HasId(seq, id) == \E i \in 1..Len(seq) : seq[i].id = id

\* the selection is cleared where the first entity should be taken
FirstIdNone(seq) == Null

FirstId(seq) == IF Len(seq) = 0 THEN Null ELSE seq[1].id

\* Array.prototype.find by id: the index of the first match, 0 when none
FindIdx(seq, id) ==
  IF HasId(seq, id) THEN CHOOSE i \in 1..Len(seq) :
                           /\ seq[i].id = id
                           /\ \A j \in 1..(i - 1) : seq[j].id # id
  ELSE 0

\* ---------------------------------------------------------------- progress
\* credits and coefficients are in hundredths: 45 stands for 0.45
Statuses == {"todo", "in_progress", "blocked", "done"}

\* the default of the parameter inProgressCoeff
DefaultCoeff == 50

\* progressByStatus (data.ts lines 9-14)
progressByStatus(status) ==
  CASE status = "todo" -> 0
    [] status = "blocked" -> 0
    [] status = "in_progress" -> 50
    [] status = "done" -> 100

\* buildProgress crediting in_progress with the fixed table value
buildProgressFixedHalf(status, inProgressCoeff) ==
  IF status = "done" THEN 100
  ELSE IF status = "in_progress" THEN progressByStatus("in_progress") ELSE 0

\* buildProgress scaling done by the coefficient as well
buildProgressDoneScaled(status, inProgressCoeff) ==
  IF status = "done" \/ status = "in_progress" THEN inProgressCoeff ELSE 0

\* buildProgress crediting blocked like in_progress
buildProgressBlockedPartial(status, inProgressCoeff) ==
  IF status = "done" THEN 100
  ELSE IF status \in {"in_progress", "blocked"} THEN inProgressCoeff ELSE 0

\* buildProgress (data.ts lines 16-20)
buildProgress(status, inProgressCoeff) ==
  IF status = "done" THEN 100
  ELSE IF status = "in_progress" THEN inProgressCoeff ELSE 0

\* Math.round(num / den) for num >= 0 and den > 0: the nearest integer, halves up
MathRound(num, den) == (2 * num + den) \div (2 * den)

\* the weight an item counts with: 1 when absent or zero
CountedWeight(w) == IF w = NoWeight \/ w = 0 THEN 1 ELSE w

RECURSIVE TotalWeight(_, _)
\* the sum of the counted weights of items[1..n]
TotalWeight(items, n) ==
  IF n = 0 THEN 0 ELSE TotalWeight(items, n - 1) + CountedWeight(items[n].weight)

RECURSIVE TotalCredit(_, _, _)
\* the sum of weight * credit of items[1..n], in hundredths
TotalCredit(items, coeff, n) ==
  IF n = 0 THEN 0
  ELSE TotalCredit(items, coeff, n - 1)
         + CountedWeight(items[n].weight) * buildProgress(items[n].status, coeff)

\* the aggregate of a step over its subtasks or of a project over its steps:
\* round-half-up of 100 * sum(w * c) / sum(w), 0 for an empty collection
Progress(items, coeff) ==
  IF Len(items) = 0 THEN 0
  ELSE MathRound(TotalCredit(items, coeff, Len(items)), TotalWeight(items, Len(items)))

\* ------------------------------------------------------------- seed data
\* a subtask as handleAddSubtask builds it (lines 360-370): status 'todo'
Subtask(id, oi, w) == [id |-> id, order_index |-> oi, weight |-> w, status |-> "todo"]

\* a step as handleAddStep builds it (lines 262-276): status 'todo', progress_percent 0
Step(id, oi, w, subs, isProp) ==
  [id |-> id, order_index |-> oi, weight |-> w, subtasks |-> subs, prop |-> isProp,
   status |-> "todo", progress_percent |-> 0]

\* inprogress_coeff of the seed projects (data.ts lines 42 and 118)
inprogress_coeff(pid) == IF pid = 1 THEN 45 ELSE 60

\* project.steps of the project the panel is given: the seed of data.ts cut down to
\* two projects, project 1 with a step that has two subtasks and a step that has none
PropSteps(pid) ==
  IF pid = 1
  THEN << [Step(11, 1, 1, << [Subtask(111, 1, 1) EXCEPT !.status = "done"],
                              [Subtask(112, 2, 1) EXCEPT !.status = "in_progress"] >>, TRUE)
             EXCEPT !.status = "in_progress",
                    !.progress_percent =
                       MathRound(progressByStatus("done") * 1
                                   + progressByStatus("in_progress") * 1, 2)],
          [Step(12, 2, 1, << >>, TRUE)
             EXCEPT !.progress_percent = buildProgress("todo", 45)] >>
  ELSE << [Step(21, 1, NoWeight, << >>, TRUE)
             EXCEPT !.status = "done", !.progress_percent = 100] >>

ProjectIds == {1, 2}

\* ------------------------------------------------- backend answers (inputs)
\* the non-empty lists GET /projects/{id}/steps may answer with
RemoteSteps(pid) ==
  IF pid = 1
  THEN { << Step(11, 1, 2, << >>, FALSE), Step(13, 2, 1, << >>, FALSE) >> }
  ELSE { << Step(22, 1, 1, << >>, FALSE) >> }

\* the non-empty lists GET /steps/{id}/subtasks may answer with
RemoteSubtasks(sid) ==
  { << Subtask(sid * 10 + 3, 1, 2) >> }

StatusFilters == {"all", "todo"}
SearchTexts == {<< >>, << "x" >>}
AssigneeFilters == {Null, 1}

\* ----------------------------------------------------------------- state
VARIABLES
  project,              \* props.project.id
  steps,                \* useState steps
  stepsIsProp,          \* identity: steps === project.steps
  selectedStepId,
  subtasks,             \* useState subtasks
  synced,               \* identity: selectedStep.subtasks === subtasks
  subsPropOf,           \* identity: id of the project.steps entry whose subtasks array is `subtasks`, or Null
  selectedSubtaskId,
  loadingSteps,
  stepError,            \* "none" for null, "local" for either message (lines 99, 108)
  loadingSubtasks,
  subtaskError,         \* "none" for null, "local" for either message (lines 149, 159)
  stepSearch, stepStatusFilter, stepAssigneeFilter,
  subtaskSearch, subtaskStatusFilter,
  actionTone,           \* "none" while actionMessage is null
  showStepDialog,       \* the modal StepDialog is open
  editingStep,          \* id of the step the dialog edits, Null for a new step
  dialogBusy,           \* StepDialog's loading flag: its request is awaited
  stepsReq,             \* loadSteps closures awaiting fetchSteps
  subtasksReq,          \* loadSubtasks closures awaiting fetchSubtasks
  persistReq,           \* persist closures awaiting a mutation request
  clock,                \* last value Date.now() returned
  edits,                \* how many edits the user has made
  categories,           \* App: ids of the categories
  projects,             \* App: the projects slice
  pmDirectory,          \* App: "seed" while the array is seedPMs, "fetched" otherwise
  loading,              \* App: the start-up load is awaited
  error,                \* App: an error banner is set
  projectFilter,        \* App: the words typed into the project filter
  selectedCategoryId,
  selectedProjectId,
  loadReq,              \* App: the start-up requests are in flight
  projectsReq,          \* App: loadProjects closures in flight
  editingCategory,      \* App: id of the category the CategoryDialog is open for, or Null
  categoryReq,          \* App: id of the category whose deleteCategory is awaited, or Null
  deletedCategories,    \* history: ids of the categories the backend has deleted
  kpiReq,               \* App: a fetchKpi is awaited
  showCategoryDialog,   \* App: the CategoryDialog is rendered
  showProjectDialog,    \* App: the ProjectDialog is rendered
  editingProject,       \* App: id of the project the ProjectDialog is open for, or Null
  adminReq,             \* App: the save or delete a dialog awaits, besides deleteCategory
  dialogError,          \* the error line of the dialog that is open
  calls,                \* how many saves and project deletes the dialogs have made
  searchInput,          \* the pieces of text typed into a search box, in order
  parseResult,          \* parseTokens of that text
  lastIndex,            \* tokenPattern.lastIndex, shared by every call of parseTokens
  sent,                 \* the query each slice sends for that text
  shown,                \* the rows each filtered view shows for that text
  aggItems,             \* the items the progress aggregate is asked for
  aggCoeff,             \* the in-progress coefficient it is asked with
  aggProgress,          \* the progress it answers
  focus,                \* which component the run exercises: "panel" or "app"
  lastEv                \* history: the event the last step handled

vars == << project, steps, stepsIsProp, selectedStepId, subtasks, synced, subsPropOf,
           selectedSubtaskId, loadingSteps, stepError, loadingSubtasks, subtaskError,
           stepSearch, stepStatusFilter, stepAssigneeFilter, subtaskSearch,
           subtaskStatusFilter, actionTone, showStepDialog, editingStep, dialogBusy,
           stepsReq, subtasksReq, persistReq, clock, edits,
           categories, projects, pmDirectory, loading, error, projectFilter,
           selectedCategoryId, selectedProjectId, loadReq, projectsReq,
           editingCategory, categoryReq, deletedCategories, kpiReq,
           showCategoryDialog, showProjectDialog, editingProject, adminReq,
           dialogError, calls,
           searchInput, parseResult, lastIndex, sent, shown, aggItems, aggCoeff, aggProgress,
           focus, lastEv >>

\* the state of App
appVars == << categories, projects, pmDirectory, loading, error, projectFilter,
              selectedCategoryId, selectedProjectId, loadReq, projectsReq,
              editingCategory, categoryReq, deletedCategories, kpiReq,
              showCategoryDialog, showProjectDialog, editingProject, adminReq,
              dialogError, calls >>

\* the search box the tokenizer is exercised with
searchVars == << searchInput, parseResult, lastIndex, sent, shown >>

\* the request put to the progress aggregate and its answer
aggVars == << aggItems, aggCoeff, aggProgress >>

\* the state of StepsPanel
panelVars == << project, steps, stepsIsProp, selectedStepId, subtasks, synced, subsPropOf,
                selectedSubtaskId, loadingSteps, stepError, loadingSubtasks, subtaskError,
                stepSearch, stepStatusFilter, stepAssigneeFilter, subtaskSearch,
                subtaskStatusFilter, actionTone, showStepDialog, editingStep, dialogBusy,
                stepsReq, subtasksReq, persistReq, clock, edits >>

\* the component state the effects read and write, as one record
Cur ==
  [ project |-> project, steps |-> steps, stepsIsProp |-> stepsIsProp,
    selectedStepId |-> selectedStepId, subtasks |-> subtasks, synced |-> synced,
    subsPropOf |-> subsPropOf, selectedSubtaskId |-> selectedSubtaskId,
    loadingSteps |-> loadingSteps, stepError |-> stepError,
    loadingSubtasks |-> loadingSubtasks, subtaskError |-> subtaskError,
    stepSearch |-> stepSearch, stepStatusFilter |-> stepStatusFilter,
    stepAssigneeFilter |-> stepAssigneeFilter, subtaskSearch |-> subtaskSearch,
    subtaskStatusFilter |-> subtaskStatusFilter,
    stepsReq |-> stepsReq, subtasksReq |-> subtasksReq ]

\* which effect dependencies changed since the last commit
Clean ==
  [ project |-> FALSE, steps |-> FALSE, selId |-> FALSE, selObj |-> FALSE,
    subtasks |-> FALSE, selSub |-> FALSE, stepQuery |-> FALSE, subQuery |-> FALSE ]

AllDirty ==
  [ project |-> TRUE, steps |-> TRUE, selId |-> TRUE, selObj |-> TRUE,
    subtasks |-> TRUE, selSub |-> TRUE, stepQuery |-> TRUE, subQuery |-> TRUE ]

\* const selectedStep = steps.find((s) => s.id === selectedStepId) ?? null  (index, 0 = null)
SelectedStepIdx(r) ==
  IF r.selectedStepId = Null THEN 0 ELSE FindIdx(r.steps, r.selectedStepId)


\* project.steps[0]?.subtasks[0]?.id ?? null
FirstSubtaskOfFirst(ss) == IF Len(ss) = 0 THEN Null ELSE FirstId(ss[1].subtasks)

\* the useState initial values of the component mounted for project pid (lines 32-61)
Mounted(pid) ==
  LET prop == PropSteps(pid)
  IN  [ project |-> pid, steps |-> prop, stepsIsProp |-> TRUE,
        selectedStepId |-> Null,
        subtasks |-> IF Len(prop) = 0 THEN << >> ELSE prop[1].subtasks,
        synced |-> FALSE,
        subsPropOf |-> FirstId(prop),
        selectedSubtaskId |-> FirstSubtaskOfFirst(prop),
        loadingSteps |-> FALSE, stepError |-> "none",
        loadingSubtasks |-> FALSE, subtaskError |-> "none",
        stepSearch |-> << >>, stepStatusFilter |-> "all", stepAssigneeFilter |-> Null,
        subtaskSearch |-> << >>, subtaskStatusFilter |-> "all",
        stepsReq |-> {}, subtasksReq |-> {} ]

\* ---------------------------------------------------------------- effects
StepQuery(r) ==
  [status |-> r.stepStatusFilter, assignee |-> r.stepAssigneeFilter, search |-> r.stepSearch]

SubtaskQuery(r) == [status |-> r.subtaskStatusFilter, search |-> r.subtaskSearch]

\* the queries of the filters as useState initialises them (lines 33-34, 38-40);
\* they stand for the query in a closure that was cancelled
InitialStepQuery == [status |-> "all", assignee |-> Null, search |-> << >>]

InitialSubtaskQuery == [status |-> "all", search |-> << >>]

\* The cleanup of a fetch effect (lines 116-118, 170-172): isMounted = false in the
\* closure issued before.  A closure whose isMounted is false returns at its first
\* statement after the await and reads nothing else, so only the flag is kept of it.
\* stale is history: a dependency of the effect changed after the fetch was issued.
UnmountSteps(q) ==
  [pid |-> Null, selNull |-> FALSE, q |-> InitialStepQuery,
   mounted |-> FALSE, stale |-> TRUE]

UnmountSubtasks(q) ==
  [sid |-> Null, fb |-> << >>, fbProp |-> FALSE, q |-> InitialSubtaskQuery,
   mounted |-> FALSE, stale |-> TRUE]

CancelSteps(reqs) == { UnmountSteps(q) : q \in reqs }

CancelSubtasks(reqs) == { UnmountSubtasks(q) : q \in reqs }

\* prev.map((s) => (s.id === selectedStepId ? { ...s, subtasks } : s))
SyncSubtasks(ss, id, subs) ==
  [i \in 1..Len(ss) |->
     IF ss[i].id = id THEN [ss[i] EXCEPT !.subtasks = subs, !.prop = FALSE] ELSE ss[i]]

\* did the identity of selectedStep change between two renders; `replaced` tells
\* whether the object carrying the (unchanged) selected id was created anew
ObjChanged(old, new, replaced) ==
  LET i == SelectedStepIdx(old)
      j == SelectedStepIdx(new)
  IN  IF i = 0 /\ j = 0 THEN FALSE
      ELSE IF i = 0 \/ j = 0 THEN TRUE
      ELSE IF old.selectedStepId # new.selectedStepId THEN TRUE
      ELSE replaced

\* the closure loadSteps runs in
LoadStepsClosure(r) ==
  [pid |-> r.project, selNull |-> (r.selectedStepId = Null), q |-> StepQuery(r),
   mounted |-> TRUE, stale |-> FALSE]

\* the closure loadSubtasks runs in
LoadSubtasksClosure(r) ==
  LET idx == SelectedStepIdx(r)
  IN  [sid |-> r.selectedStepId, fb |-> r.steps[idx].subtasks, fbProp |-> r.steps[idx].prop,
       q |-> SubtaskQuery(r), mounted |-> TRUE, stale |-> FALSE]

\* One commit: the effects whose dependencies changed (d) run in declaration order
\* on the rendered values r; the result is the next rendered state and what changed.
Commit(r, d) ==
  LET idx    == SelectedStepIdx(r)
      hasSel == idx # 0
      prop   == PropSteps(r.project)
      runE1  == d.project                                        \* lines 64-73
      runE2  == d.steps \/ d.selId                               \* lines 75-84
      runE3  == d.project \/ d.stepQuery                         \* lines 86-119
      runE5  == d.selId \/ d.selObj \/ d.subQuery                \* lines 129-173
      runE6  == (d.selId \/ d.subtasks) /\ r.selectedStepId # Null   \* lines 175-180
      runE7  == d.selSub \/ d.subtasks                           \* lines 182-191
      early  == runE5 /\ ~hasSel                                 \* lines 130-134
      steps1 == IF runE1 THEN prop ELSE r.steps
      steps2 == IF runE6 THEN SyncSubtasks(steps1, r.selectedStepId, r.subtasks) ELSE steps1
      stepsCh == runE6 \/ (runE1 /\ ~r.stepsIsProp)
      e2sets == runE2 /\ ~HasId(r.steps, r.selectedStepId)
      sel2   == IF e2sets THEN FirstId(r.steps)
                ELSE IF runE1 THEN FirstId(prop) ELSE r.selectedStepId
      subs2  == IF early THEN << >> ELSE r.subtasks
      e7sets == runE7 /\ ~HasId(r.subtasks, r.selectedSubtaskId)
      selSub2 == IF e7sets THEN FirstId(r.subtasks)
                 ELSE IF early THEN Null
                 ELSE IF runE1 THEN FirstSubtaskOfFirst(prop) ELSE r.selectedSubtaskId
      j      == IF sel2 = Null THEN 0 ELSE FindIdx(steps2, sel2)
      synced2 == IF j = 0 \/ early THEN FALSE
                 ELSE IF runE6 /\ sel2 = r.selectedStepId THEN TRUE
                 ELSE IF sel2 = r.selectedStepId /\ idx # 0 /\ ~runE1 THEN r.synced
                 ELSE IF steps2[j].prop THEN r.subsPropOf = sel2
                 ELSE FALSE
      r2 == [r EXCEPT
               !.steps = steps2,
               !.stepsIsProp = IF runE6 THEN FALSE ELSE IF runE1 THEN TRUE ELSE @,
               !.selectedStepId = sel2,
               !.subtasks = subs2,
               !.subsPropOf = IF early THEN Null ELSE @,
               !.synced = synced2,
               !.selectedSubtaskId = selSub2,
               !.stepError = IF runE1 THEN "none" ELSE @,
               !.subtaskError = IF runE1 THEN "none" ELSE @,
               !.subtaskSearch = IF runE1 THEN << >> ELSE @,
               !.subtaskStatusFilter = IF runE1 THEN "all" ELSE @,
               !.loadingSteps = IF runE3 THEN TRUE ELSE @,
               !.stepsReq = IF runE3 THEN CancelSteps(@) \cup {LoadStepsClosure(r)} ELSE @,
               !.loadingSubtasks = IF runE5 /\ hasSel THEN TRUE ELSE @,
               !.subtasksReq = IF ~runE5 THEN @
                               ELSE IF hasSel THEN CancelSubtasks(@) \cup {LoadSubtasksClosure(r)}
                               ELSE CancelSubtasks(@)]
      replaced == runE6 \/ (runE1 /\ idx # 0 /\ ~r.steps[idx].prop)
      d2 == [project |-> FALSE,
             steps |-> stepsCh,
             selId |-> sel2 # r.selectedStepId,
             selObj |-> ObjChanged(r, r2, replaced),
             subtasks |-> early,
             selSub |-> selSub2 # r.selectedSubtaskId,
             stepQuery |-> FALSE,
             subQuery |-> runE1 /\ (r.subtaskSearch # << >> \/ r.subtaskStatusFilter # "all")]
  IN  [r |-> r2, d |-> d2]

\* render and run effects until no dependency changes any more
RECURSIVE Settle(_, _)
Settle(r, d) ==
  IF d = Clean THEN r
  ELSE LET c == Commit(r, d) IN Settle(c.r, c.d)

\* the panel renders r; App is left alone while the panel is exercised
Apply(r) ==
  /\ focus = "panel"
  /\ UNCHANGED << appVars, searchVars, aggVars, focus >>
  /\ project' = r.project
  /\ steps' = r.steps
  /\ stepsIsProp' = r.stepsIsProp
  /\ selectedStepId' = r.selectedStepId
  /\ subtasks' = r.subtasks
  /\ synced' = r.synced
  /\ subsPropOf' = r.subsPropOf
  /\ selectedSubtaskId' = r.selectedSubtaskId
  /\ loadingSteps' = r.loadingSteps
  /\ stepError' = r.stepError
  /\ loadingSubtasks' = r.loadingSubtasks
  /\ subtaskError' = r.subtaskError
  /\ stepSearch' = r.stepSearch
  /\ stepStatusFilter' = r.stepStatusFilter
  /\ stepAssigneeFilter' = r.stepAssigneeFilter
  /\ subtaskSearch' = r.subtaskSearch
  /\ subtaskStatusFilter' = r.subtaskStatusFilter
  /\ stepsReq' = r.stepsReq
  /\ subtasksReq' = r.subtasksReq

\* ------------------------------------------------------------------ texts
\* the character classes of the patterns: \w, \s and [^\s] of tokenPattern
\* (search.ts line 11), which are also the characters trim removes; the digits
\* Number reads and [0-9.] of the weight pattern (line 35). A letter outside
\* ASCII is in no class but [^\s].
InClass(c, class) ==
  CASE class = "word" ->
         c \in { "a", "b", "c", "d", "e", "f", "g", "h", "i", "j", "k", "l", "m", "n", "o",
                  "p", "q", "r", "s", "t", "u", "v", "w", "x", "y", "z",
                  "A", "B", "C", "D", "E", "F", "G", "H", "I", "J", "K", "L", "M", "N", "O",
                  "P", "Q", "R", "S", "T", "U", "V", "W", "X", "Y", "Z",
                  "0", "1", "2", "3", "4", "5", "6", "7", "8", "9", "_" }
    [] class = "space" -> c \in {" ", "\t"}
    [] class = "notspace" -> c \notin {" ", "\t"}
    [] class = "digit" -> c \in {"0", "1", "2", "3", "4", "5", "6", "7", "8", "9"}
    [] class = "digitpoint" ->
         c \in {"0", "1", "2", "3", "4", "5", "6", "7", "8", "9", "."}

\* String.prototype.toLowerCase on one character
LowerChar(c) ==
  CASE c = "A" -> "a" [] c = "B" -> "b" [] c = "C" -> "c" [] c = "D" -> "d"
    [] c = "E" -> "e" [] c = "F" -> "f" [] c = "G" -> "g" [] c = "H" -> "h"
    [] c = "I" -> "i" [] c = "J" -> "j" [] c = "K" -> "k" [] c = "L" -> "l"
    [] c = "M" -> "m" [] c = "N" -> "n" [] c = "O" -> "o" [] c = "P" -> "p"
    [] c = "Q" -> "q" [] c = "R" -> "r" [] c = "S" -> "s" [] c = "T" -> "t"
    [] c = "U" -> "u" [] c = "V" -> "v" [] c = "W" -> "w" [] c = "X" -> "x"
    [] c = "Y" -> "y" [] c = "Z" -> "z"
    [] c = "U+0414" -> "U+0434"
    [] OTHER -> c

toLowerCase(t) == [i \in 1..Len(t) |-> LowerChar(t[i])]

\* String.prototype.includes
includes(hay, needle) ==
  \E i \in 0..(Len(hay) - Len(needle)) : SubSeq(hay, i + 1, i + Len(needle)) = needle

\* the first index from i on whose character is not in the class, Len + 1 when none
RunEnd(t, i, class) ==
  LET end[j \in i..(Len(t) + 1)] ==
        IF j > Len(t) \/ ~InClass(t[j], class) THEN j ELSE end[j + 1]
  IN  IF i > Len(t) THEN Len(t) + 1 ELSE end[i]

\* tokenPattern = /(\w+):([^\s]+)/g  (search.ts line 11) tried at index i: the
\* greedy \w+ takes the run of word characters from i, a colon and at least one
\* character that is not white space must follow
MatchAt(t, i) ==
  LET colon == RunEnd(t, i, "word")
  IN  /\ i <= Len(t)
      /\ colon > i
      /\ colon < Len(t)
      /\ t[colon] = ":"
      /\ InClass(t[colon + 1], "notspace")

\* one match: [first, colon, last] are the indexes of its first character, of its
\* colon and of the last character of its value
MatchFrom(t, i) ==
  LET colon == RunEnd(t, i, "word")
  IN  [first |-> i, colon |-> colon, last |-> RunEnd(t, colon + 1, "notspace") - 1]

\* the matches tokenPattern.exec finds from index i on, in order (lines 18-20)
RECURSIVE ExecAll(_, _)
ExecAll(t, i) ==
  IF i > Len(t) THEN << >>
  ELSE IF MatchAt(t, i)
       THEN << MatchFrom(t, i) >> \o ExecAll(t, MatchFrom(t, i).last + 1)
       ELSE ExecAll(t, i + 1)

\* the key of a match in the letter case it was typed in
MatchKeyAsTyped(t, m) == SubSeq(t, m.first, m.colon - 1)

MatchKey(t, m) == toLowerCase(SubSeq(t, m.first, m.colon - 1))

MatchValue(t, m) == SubSeq(t, m.colon + 1, m.last)

\* tokens[key] after the loop of lines 18-20: the value of the last match with
\* that key, the empty text for undefined (a matched value is never empty)
RECURSIVE TokenOf(_, _, _)
TokenOf(t, ms, key) ==
  IF Len(ms) = 0 THEN << >>
  ELSE IF MatchKey(t, ms[Len(ms)]) = key THEN MatchValue(t, ms[Len(ms)])
  ELSE TokenOf(t, SubSeq(ms, 1, Len(ms) - 1), key)

DigitValue(c) ==
  CASE c = "0" -> 0 [] c = "1" -> 1 [] c = "2" -> 2 [] c = "3" -> 3 [] c = "4" -> 4
    [] c = "5" -> 5 [] c = "6" -> 6 [] c = "7" -> 7 [] c = "8" -> 8 [] c = "9" -> 9

RECURSIVE Natural(_)
Natural(ds) ==
  IF Len(ds) = 0 THEN 0
  ELSE 10 * Natural(SubSeq(ds, 1, Len(ds) - 1)) + DigitValue(ds[Len(ds)])

\* a number of the program: weights and thresholds are kept in tenths, so 0.5 is
\* 5 and 1 is 10; the texts that are parsed have at most one digit after the point
Num(tenths) == [kind |-> "number", tenths |-> tenths]

NaN == [kind |-> "NaN", tenths |-> 0]

undefined == [kind |-> "undefined", tenths |-> 0]

\* a number, NaN or undefined used as a condition
Truthy(n) == n.kind = "number" /\ n.tenths # 0

\* Number(text) for a text of digits and points (line 38): NaN unless the text is
\* digits with at most one point and at least one digit
Number(t) ==
  LET point == RunEnd(t, 1, "digit")
      whole == SubSeq(t, 1, point - 1)
      frac  == SubSeq(t, point + 1, Len(t))
  IN  IF point > Len(t) THEN Num(10 * Natural(whole))
      ELSE IF RunEnd(frac, 1, "digit") <= Len(frac) \/ Len(whole) + Len(frac) = 0 THEN NaN
      ELSE Num(10 * Natural(whole) + (IF Len(frac) = 0 THEN 0 ELSE DigitValue(frac[1])))

\* tokens.weight.match(/([><=])([0-9.]+)/)  (line 35): the index of the comparator
\* of the leftmost match, 0 for no match
WeightMatch(v) ==
  LET hits == { i \in 1..(Len(v) - 1) : v[i] \in {">", "<", "="} /\ InClass(v[i + 1], "digitpoint") }
  IN  IF hits = {} THEN 0 ELSE CHOOSE i \in hits : \A j \in hits : i <= j

\* String.prototype.trim
RECURSIVE trim(_)
trim(t) ==
  IF Len(t) = 0 THEN t
  ELSE IF InClass(t[1], "space") THEN trim(Tail(t))
  ELSE IF InClass(t[Len(t)], "space") THEN trim(SubSeq(t, 1, Len(t) - 1))
  ELSE t

\* a text whose runs of white space are left as they are
KeepSpaces(t) == t

\* .replace(/\s{2,}/g, ' ')  (line 45): a run of two or more white space
\* characters becomes one space, a single one is kept as it is
RECURSIVE CollapseSpaces(_)
CollapseSpaces(t) ==
  IF Len(t) = 0 THEN t
  ELSE LET e == RunEnd(t, 1, "space")
       IN  IF e > 2 THEN << " " >> \o CollapseSpaces(SubSeq(t, e, Len(t)))
           ELSE << t[1] >> \o CollapseSpaces(Tail(t))

\* a replace without the g flag: only the first match is taken out
RemoveFirstMatch(t, ms) ==
  SelectSeq([i \in 1..Len(t) |->
               IF Len(ms) > 0 /\ ms[1].first <= i /\ i <= ms[1].last THEN "" ELSE t[i]],
            LAMBDA c : c # "")

\* .replace(tokenPattern, '')  (line 43)
RemoveMatches(t, ms) ==
  SelectSeq([i \in 1..Len(t) |->
               IF \E k \in 1..Len(ms) : ms[k].first <= i /\ i <= ms[k].last
               THEN "" ELSE t[i]],
            LAMBDA c : c # "")

\* the weight filter of a weight token w whose comparator stands at index at
\* (lines 34-40); no filter when the token is absent or has no comparator
WeightFilter(w, at) ==
  [ comparator |-> IF at = 0 THEN "none" ELSE w[at],
    value |-> IF at = 0 THEN undefined
              ELSE Number(SubSeq(w, at + 1, RunEnd(w, at + 1, "digitpoint") - 1)) ]

\* the result of parseTokens for the matches ms of the input and the weight filter
\* (lines 21-47); an absent status, owner or assignee is the empty text
ParsedSearch(input, ms, weight) ==
  [ text |-> CollapseSpaces(trim(RemoveMatches(input, ms))),
    status |-> TokenOf(input, ms, << "s", "t", "a", "t", "u", "s" >>),
    owner |-> TokenOf(input, ms, << "o", "w", "n", "e", "r" >>),
    assignee |-> TokenOf(input, ms, << "a", "s", "s", "i", "g", "n", "e", "e" >>),
    hasFiles |-> TokenOf(input, ms, << "h", "a", "s" >>) = << "f", "i", "l", "e", "s" >>,
    weightComparator |-> weight.comparator,
    weightValue |-> weight.value ]

Tokens(input, ms) ==
  ParsedSearch(input, ms,
               WeightFilter(TokenOf(input, ms, << "w", "e", "i", "g", "h", "t" >>),
                            WeightMatch(TokenOf(input, ms, << "w", "e", "i", "g", "h", "t" >>))))

\* parseTokens (search.ts lines 13-48)
parseTokens(input) == Tokens(input, ExecAll(input, 1))

\* an exec that leaves lastIndex behind its last match when it answers null
ExecLastIndexKept(t, i) ==
  IF Len(ExecAll(t, i)) = 0 THEN i - 1 ELSE ExecAll(t, i)[Len(ExecAll(t, i))].last

\* tokenPattern.lastIndex once exec, called again and again from index i, has
\* answered null: every match moves lastIndex behind it and the failed search
\* sets it to 0 (the loop of lines 18-20, and the loop inside replace, line 43)
RECURSIVE ExecLastIndex(_, _)
ExecLastIndex(t, i) ==
  IF i > Len(t) THEN 0
  ELSE IF MatchAt(t, i) THEN ExecLastIndex(t, MatchFrom(t, i).last + 1)
  ELSE ExecLastIndex(t, i + 1)

\* parseTokens called while tokenPattern.lastIndex is at: the loop of lines 18-20
\* searches from there, replace (line 43) searches from the start
parseTokensAt(input, at) ==
  [Tokens(input, ExecAll(input, at + 1)) EXCEPT
     !.text = CollapseSpaces(trim(RemoveMatches(input, ExecAll(input, 1))))]

\* ---------------------------------------------------------------------- App
\* the texts of the statuses
Todo == << "t", "o", "d", "o" >>

Done == << "d", "o", "n", "e" >>

InProgress == << "i", "n", "_", "p", "r", "o", "g", "r", "e", "s", "s" >>

\* a project without a code and without attachments, owned by PM 2, with the
\* progress_percent data.ts writes for it (lines 39 and 117)
Project(id, cat, status, name) ==
  [id |-> id, category_id |-> cat, status |-> status, name |-> name,
   code |-> << >>, attachments |-> 0, owner_id |-> 2,
   inprogress_coeff |-> inprogress_coeff(id), steps |-> PropSteps(id),
   progress_percent |-> IF id = 1 THEN 42 ELSE 78]

\* a project as the backend serves it: progress_percent computed from its steps
Served(proj) ==
  [proj EXCEPT !.progress_percent = Progress(proj.steps, proj.inprogress_coeff)]

PM(id, name) == [id |-> id, name |-> name]

\* seedPMs (data.ts lines 3-7), cut down to one entry
seedPMs == << PM(2, << "A", "l", "e", "x", " ", "C", "h", "e", "n" >>) >>

\* the directory GET /pms answers with when it is not empty
FetchedPMs == << PM(2, << "A", "l", "e", "x", " ", "C", "h", "e", "n" >>),
                PM(7, << "A", "n", "n" >>) >>

\* pmDirectory as an array
PMs(dir) == IF dir = "seed" THEN seedPMs ELSE FetchedPMs

\* seedCategories and seedProjects (App.tsx lines 42-47): one project per category
seedCategories == << 1, 2 >>

seedProjects == << Project(1, 1, Todo, << "x" >>), Project(2, 2, Todo, << "y" >>) >>

\* what the backend holds
BackendProjects ==
  << Served(Project(1, 1, Todo, << "x" >>)), Served(Project(3, 1, Done, << "y" >>)),
     Served(Project(2, 2, Todo, << "x" >>)) >>

\* what the user types into the project filter
ProjectFilters ==
  { << >>, << "x" >>, << "s", "t", "a", "t", "u", "s", ":" >> \o Done,
    << "o", "w", "n", "e", "r", ":", "A", "N", "N" >> }

\* a query whose owner is looked up by the name exactly as typed
QueryOfExactName(r, parsed, dir) ==
  LET found == { i \in 1..Len(dir) : dir[i].name = parsed.owner }
  IN  [category_id |-> r.selectedCategoryId,
       owner_id |-> IF parsed.owner = << >> \/ found = {} THEN Null
                    ELSE dir[CHOOSE i \in found : \A j \in found : i <= j].id,
       status |-> parsed.status,
       search |-> parsed.text]

\* the query of loadProjects built from the parsed filter and the PM directory
\* (lines 102-107): ownerId is the id of the first PM whose name equals the owner
\* token without regard to case
QueryOf(r, parsed, dir) ==
  LET found == { i \in 1..Len(dir) : toLowerCase(dir[i].name) = toLowerCase(parsed.owner) }
  IN  [category_id |-> r.selectedCategoryId,
       owner_id |-> IF parsed.owner = << >> \/ found = {} THEN Null
                    ELSE dir[CHOOSE i \in found : \A j \in found : i <= j].id,
       status |-> parsed.status,
       search |-> parsed.text]

\* the query of loadProjects (lines 100-107)
ProjectQuery(r) == QueryOf(r, parseTokens(r.projectFilter), PMs(r.pmDirectory))

\* the query of load: fetchProjects({}) (line 70)
EmptyQuery == [category_id |-> Null, owner_id |-> Null, status |-> << >>, search |-> << >>]

\* the answer of the backend to a query
Matches(q, proj) ==
  /\ q.category_id = Null \/ proj.category_id = q.category_id
  /\ q.owner_id = Null \/ proj.owner_id = q.owner_id
  /\ q.status = << >> \/ proj.status = q.status
  /\ includes(toLowerCase(proj.name), toLowerCase(q.search))

Filtered(q) == SelectSeq(BackendProjects, LAMBDA proj : Matches(q, proj))

\* the backend drops the projects of a category it has deleted
Alive(ps, deleted) == SelectSeq(ps, LAMBDA proj : proj.category_id \notin deleted)

\* no save and no project delete is awaited
NoAdminReq == [kind |-> "none", id |-> Null, cat |-> Null, n |-> 0, closed |-> FALSE]

AppCur ==
  [ categories |-> categories, projects |-> projects, pmDirectory |-> pmDirectory,
    loading |-> loading, error |-> error, projectFilter |-> projectFilter,
    selectedCategoryId |-> selectedCategoryId, selectedProjectId |-> selectedProjectId,
    loadReq |-> loadReq, projectsReq |-> projectsReq,
    editingCategory |-> editingCategory, categoryReq |-> categoryReq,
    deletedCategories |-> deletedCategories, kpiReq |-> kpiReq,
    showCategoryDialog |-> showCategoryDialog, showProjectDialog |-> showProjectDialog,
    editingProject |-> editingProject, adminReq |-> adminReq,
    dialogError |-> dialogError, calls |-> calls ]

\* the first render of App (lines 30-60)
AppMounted ==
  [ categories |-> seedCategories, projects |-> seedProjects, pmDirectory |-> "seed",
    loading |-> FALSE, error |-> FALSE, projectFilter |-> << >>,
    selectedCategoryId |-> Null, selectedProjectId |-> Null,
    loadReq |-> FALSE, projectsReq |-> {},
    editingCategory |-> Null, categoryReq |-> Null, deletedCategories |-> {}, kpiReq |-> FALSE,
    showCategoryDialog |-> FALSE, showProjectDialog |-> FALSE, editingProject |-> Null,
    adminReq |-> NoAdminReq, dialogError |-> FALSE, calls |-> 0 ]

AppClean == [mount |-> FALSE, query |-> FALSE, sel |-> FALSE]

\* the cleanup of the loadProjects effect (lines 119-121); as for the panel only the
\* flag of a cancelled closure is kept
UnmountProjects(q) == [q |-> EmptyQuery, mounted |-> FALSE, stale |-> TRUE]

CancelProjects(reqs) == { UnmountProjects(q) : q \in reqs }

InCategory(ps, cat) == SelectSeq(ps, LAMBDA proj : proj.category_id = cat)

Member(seq, x) == \E i \in 1..Len(seq) : seq[i] = x

\* one commit of App: load (62-95) on mount, loadProjects (97-122) when its
\* dependencies changed, the selection effect (147-161)
AppCommit(r, d) ==
  LET categoryToUse == IF Member(r.categories, r.selectedCategoryId) THEN r.selectedCategoryId
                       ELSE r.categories[1]
      runSel == d.sel /\ Len(r.categories) > 0
      cat2   == IF runSel THEN categoryToUse ELSE r.selectedCategoryId
      inCat  == InCategory(r.projects, categoryToUse)
      proj2  == IF runSel /\ ~HasId(inCat, r.selectedProjectId) THEN FirstId(inCat)
                ELSE r.selectedProjectId
      r2 == [r EXCEPT
               !.loading = IF d.mount THEN TRUE ELSE @,
               !.loadReq = IF d.mount THEN TRUE ELSE @,
               !.projectsReq = IF ~d.query THEN @
                               ELSE IF r.error THEN CancelProjects(@)
                               ELSE CancelProjects(@) \cup
                                      {[q |-> ProjectQuery(r), mounted |-> TRUE, stale |-> FALSE]},
               !.selectedCategoryId = cat2,
               !.selectedProjectId = proj2]
      d2 == [mount |-> FALSE,
             query |-> cat2 # r.selectedCategoryId,
             sel |-> cat2 # r.selectedCategoryId \/ proj2 # r.selectedProjectId]
  IN  [r |-> r2, d |-> d2]

RECURSIVE AppSettle(_, _)
AppSettle(r, d) ==
  IF d = AppClean THEN r
  ELSE LET c == AppCommit(r, d) IN AppSettle(c.r, c.d)

\* App renders r; the panel is left alone while App is exercised
AppApply(r) ==
  /\ focus = "app"
  /\ UNCHANGED << panelVars, searchVars, aggVars, focus >>
  /\ categories' = r.categories
  /\ projects' = r.projects
  /\ pmDirectory' = r.pmDirectory
  /\ loading' = r.loading
  /\ error' = r.error
  /\ projectFilter' = r.projectFilter
  /\ selectedCategoryId' = r.selectedCategoryId
  /\ selectedProjectId' = r.selectedProjectId
  /\ loadReq' = r.loadReq
  /\ projectsReq' = r.projectsReq
  /\ editingCategory' = r.editingCategory
  /\ categoryReq' = r.categoryReq
  /\ deletedCategories' = r.deletedCategories
  /\ kpiReq' = r.kpiReq
  /\ showCategoryDialog' = r.showCategoryDialog
  /\ showProjectDialog' = r.showProjectDialog
  /\ editingProject' = r.editingProject
  /\ adminReq' = r.adminReq
  /\ dialogError' = r.dialogError
  /\ calls' = r.calls

\* ------------------------------------------------------------ filtered views
\* a row of a list: weight in tenths, NoWeight when the step has none
Row(id, name, description, status, weight) ==
  [id |-> id, name |-> name, description |-> description, status |-> status,
   weight |-> weight]

Oven == << "o", "v", "e", "n" >>

\* the steps the step list is filtered from
FixtureSteps ==
  << Row(1, << "O", "v", "e", "n", " ", "d", "o", "o", "r" >>, << >>, InProgress, 8),
     Row(2, Oven, << >>, InProgress, 5),
     Row(3, Oven \o << " ", "w", "e", "i", "g", "h", "t", ">", "0", ".", "5" >>, << >>,
         InProgress, 5),
     Row(4, << "r", "a", "c", "k" >>, << "f", "o", "r", " " >> \o Oven, Done, NoWeight),
     Row(5, Oven \o << " ", "f", "a", "n" >>, << >>, Todo, 10) >>

\* the subtasks the subtask list is filtered from
FixtureSubtasks ==
  << Row(1, Oven, << >>, InProgress, 8),
     Row(2, << "f", "a", "n" >>, << >>, Done, 5),
     Row(3, << "r", "a", "c", "k" >>, << >>, Todo, 10) >>

\* categoriesWithProjects: one category, a project with an attachment and two without
FixtureCategories ==
  << [id |-> 1,
      projects |-> << [Project(1, 1, Todo, Oven) EXCEPT !.attachments = 1],
                      Project(2, 1, Done, << "f", "a", "n" >>),
                      Project(3, 1, Todo, << "r", "a", "c", "k" >>) >>] >>

\* a comparison whose greater-than also accepts the threshold itself
CompareWeightLoose(weight, cmp, value) ==
  IF cmp = ">" THEN weight >= value.tenths
  ELSE IF cmp = "<" THEN weight < value.tenths
  ELSE weight = value.tenths

\* the comparison of lines 227-233 and 248-254 once a threshold is there
CompareWeight(weight, cmp, value) ==
  IF cmp = ">" THEN weight > value.tenths
  ELSE IF cmp = "<" THEN weight < value.tenths
  ELSE weight = value.tenths

\* the filter callback of filteredSteps (StepsPanel.tsx lines 243-255)
StepShown(parsed, step) ==
  LET haystack == toLowerCase(step.name \o << " " >> \o step.description)
      matchesText == IF parsed.text # << >> THEN includes(haystack, toLowerCase(parsed.text))
                     ELSE TRUE
      matchesStatus == IF parsed.status # << >>
                       THEN toLowerCase(step.status) = toLowerCase(parsed.status) ELSE TRUE
      matchesWeight == IF Truthy(parsed.weightValue) /\ step.weight # NoWeight
                       THEN CompareWeight(step.weight, parsed.weightComparator,
                                          parsed.weightValue)
                       ELSE TRUE
  IN  matchesText /\ matchesStatus /\ matchesWeight

\* filteredSteps (StepsPanel.tsx lines 240-257) for parsed = parseTokens(stepSearch)
\* of line 241
filteredSteps(parsed, ss) == SelectSeq(ss, LAMBDA step : StepShown(parsed, step))

\* the filter callback of filteredSubtasks (StepsPanel.tsx lines 219-234)
SubtaskShown(parsed, statusFilter, st) ==
  LET matchesText == IF parsed.text # << >>
                     THEN includes(toLowerCase(st.name), toLowerCase(parsed.text)) ELSE TRUE
      matchesStatus == IF parsed.status # << >>
                       THEN toLowerCase(st.status) = toLowerCase(parsed.status) ELSE TRUE
      matchesStatusFilter == IF statusFilter = "all" THEN TRUE
                             ELSE st.status = statusFilter
      matchesWeight == IF Truthy(parsed.weightValue)
                       THEN CompareWeight(st.weight, parsed.weightComparator,
                                          parsed.weightValue)
                       ELSE TRUE
  IN  matchesText /\ matchesStatus /\ matchesStatusFilter /\ matchesWeight

\* filteredSubtasks (StepsPanel.tsx lines 216-236) for parsed =
\* parseTokens(subtaskSearch) of line 217
filteredSubtasks(parsed, statusFilter, sts) ==
  SelectSeq(sts, LAMBDA st : SubtaskShown(parsed, statusFilter, st))

\* categories.flatMap((c) => c.projects ...)   (LeftPanel.tsx lines 142-143)
RECURSIVE flatMapProjects(_, _)
flatMapProjects(cats, selCat) ==
  IF Len(cats) = 0 THEN << >>
  ELSE (IF selCat = Null \/ cats[1].id = selCat THEN cats[1].projects ELSE << >>)
       \o flatMapProjects(Tail(cats), selCat)

\* the filter callback of the project table (LeftPanel.tsx lines 144-152)
ProjectShown(parsedProjectFilter, proj) ==
  LET text == toLowerCase(proj.name \o << " " >> \o proj.code \o << " " >> \o proj.status)
      matchesText == IF parsedProjectFilter.text # << >>
                     THEN includes(text, toLowerCase(parsedProjectFilter.text))
                     ELSE TRUE
      matchesStatus == IF parsedProjectFilter.status # << >>
                       THEN toLowerCase(proj.status) = toLowerCase(parsedProjectFilter.status)
                       ELSE TRUE
  IN  matchesText /\ matchesStatus

\* the rows of the project table (LeftPanel.tsx lines 141-153) for
\* parsedProjectFilter = parseTokens(projectFilter) of line 36
filteredProjects(parsedProjectFilter, cats, selCat) ==
  SelectSeq(flatMapProjects(cats, selCat),
            LAMBDA proj : ProjectShown(parsedProjectFilter, proj))

\* the value of the search box: what was typed, joined
RECURSIVE Joined(_)
Joined(pieces) == IF Len(pieces) = 0 THEN << >> ELSE pieces[1] \o Joined(Tail(pieces))

\* what the three slices send when the text is in their search box, and what
\* they show for the parsed text
SentFor(text) ==
  [ projects |-> ProjectQuery([AppCur EXCEPT !.projectFilter = text]),
    steps |-> StepQuery([Cur EXCEPT !.stepSearch = text]),
    subtasks |-> SubtaskQuery([Cur EXCEPT !.subtaskSearch = text]) ]

ShownFor(parsed) ==
  [ projects |-> filteredProjects(parsed, FixtureCategories, Null),
    steps |-> filteredSteps(parsed, FixtureSteps),
    subtasks |-> filteredSubtasks(parsed, "all", FixtureSubtasks) ]

NoEvent == [kind |-> "init", stale |-> FALSE, result |-> "none", id |-> Null, temp |-> Null]

Ev(kind, stale, result) ==
  [kind |-> kind, stale |-> stale, result |-> result, id |-> Null, temp |-> Null]

\* the answer to a mutation request: id is the entity's id, temp the temporary id it replaces
EvMut(kind, result, id, temp) ==
  [kind |-> kind, stale |-> FALSE, result |-> result, id |-> id, temp |-> temp]

\* the first render followed by every effect (all dependencies are new on mount)
Init ==
  LET r == Settle(Mounted(1), AllDirty)
  IN  /\ project = r.project
      /\ steps = r.steps
      /\ stepsIsProp = r.stepsIsProp
      /\ selectedStepId = r.selectedStepId
      /\ subtasks = r.subtasks
      /\ synced = r.synced
      /\ subsPropOf = r.subsPropOf
      /\ selectedSubtaskId = r.selectedSubtaskId
      /\ loadingSteps = r.loadingSteps
      /\ stepError = r.stepError
      /\ loadingSubtasks = r.loadingSubtasks
      /\ subtaskError = r.subtaskError
      /\ stepSearch = r.stepSearch
      /\ stepStatusFilter = r.stepStatusFilter
      /\ stepAssigneeFilter = r.stepAssigneeFilter
      /\ subtaskSearch = r.subtaskSearch
      /\ subtaskStatusFilter = r.subtaskStatusFilter
      /\ stepsReq = r.stepsReq
      /\ subtasksReq = r.subtasksReq
      /\ actionTone = "none"
      /\ showStepDialog = FALSE
      /\ editingStep = Null
      /\ dialogBusy = FALSE
      /\ persistReq = {}
      /\ clock = 0
      /\ edits = 0
      /\ focus \in {"panel", "app"}
      /\ LET a == AppSettle(AppMounted, [mount |-> TRUE, query |-> TRUE, sel |-> TRUE])
         IN  /\ categories = a.categories
             /\ projects = a.projects
             /\ pmDirectory = a.pmDirectory
             /\ loading = a.loading
             /\ error = a.error
             /\ projectFilter = a.projectFilter
             /\ selectedCategoryId = a.selectedCategoryId
             /\ selectedProjectId = a.selectedProjectId
             /\ loadReq = a.loadReq
             /\ projectsReq = a.projectsReq
             /\ editingCategory = a.editingCategory
             /\ categoryReq = a.categoryReq
             /\ deletedCategories = a.deletedCategories
             /\ kpiReq = a.kpiReq
             /\ showCategoryDialog = a.showCategoryDialog
             /\ showProjectDialog = a.showProjectDialog
             /\ editingProject = a.editingProject
             /\ adminReq = a.adminReq
             /\ dialogError = a.dialogError
             /\ calls = a.calls
      /\ searchInput = << >>
      /\ parseResult = parseTokens(<< >>)
      /\ lastIndex = 0
      /\ sent = [ projects |-> ProjectQuery(AppMounted), steps |-> StepQuery(Mounted(1)),
                  subtasks |-> SubtaskQuery(Mounted(1)) ]
      /\ shown = ShownFor(parseTokens(<< >>))
      /\ aggItems = << >>
      /\ aggCoeff = DefaultCoeff
      /\ aggProgress = Progress(<< >>, DefaultCoeff)
      /\ lastEv = NoEvent

\* ----------------------------------------------------------- fetch answers
\* a fetch is stale when a newer fetch of the slice was issued after it or the
\* parameters it was issued for are no longer the current ones
StaleStepsReq(req) ==
  req.stale \/ req.pid # project \/ req.q # StepQuery(Cur)

StaleSubtasksReq(req) ==
  req.stale \/ req.sid # selectedStepId \/ req.q # SubtaskQuery(Cur)

\* a loadSteps without the isMounted guard
StepsFetchUnguarded(req) == TRUE

\* if (!isMounted) return;   (lines 96, 107, 111)
StepsFetchLive(req) == req.mounted

\* a catch branch that falls back without raising the advisory
StepsFallbackSilent(r0, req, err) ==
  Settle([r0 EXCEPT !.steps = PropSteps(req.pid), !.stepsIsProp = TRUE,
                    !.loadingSteps = FALSE, !.synced = FALSE],
         [Clean EXCEPT !.steps = TRUE, !.selObj = SelectedStepIdx(r0) # 0])

\* setSteps(project.steps) with the error message of the catch / empty branch
StepsFallback(r0, req, err) ==
  LET prop == PropSteps(req.pid)
      i    == SelectedStepIdx(r0)
      j    == IF r0.selectedStepId = Null THEN 0 ELSE FindIdx(prop, r0.selectedStepId)
      r1   == [r0 EXCEPT !.steps = prop, !.stepsIsProp = TRUE, !.stepError = err,
                         !.loadingSteps = FALSE,
                         !.synced = IF j = 0 THEN FALSE
                                    ELSE IF i # 0 /\ r0.steps[i].prop THEN @
                                    ELSE r0.subsPropOf = r0.selectedStepId]
      d1   == [Clean EXCEPT !.steps = ~r0.stepsIsProp,
                            !.selObj = ObjChanged(r0, r1, i # 0 /\ ~r0.steps[i].prop)]
  IN  Settle(r1, d1)

\* a success branch that drops the fetched list
StepsRemoteDropped(r0, req, fetched) ==
  Settle([r0 EXCEPT !.stepError = "none", !.loadingSteps = FALSE], Clean)

\* lines 97-105: a non-empty answer
StepsRemote(r0, req, fetched) ==
  LET r1 == [r0 EXCEPT !.steps = fetched, !.stepsIsProp = FALSE, !.stepError = "none",
                       !.selectedStepId = IF req.selNull THEN fetched[1].id ELSE @,
                       !.synced = FALSE,
                       !.loadingSteps = FALSE]
      d1 == [Clean EXCEPT !.steps = TRUE,
                          !.selId = r1.selectedStepId # r0.selectedStepId,
                          !.selObj = ObjChanged(r0, r1, TRUE)]
  IN  Settle(r1, d1)

\* what a fetch resolves to: a rejection, an empty list or a non-empty list
Outcomes(lists) ==
  { [kind |-> "fail", list |-> << >>], [kind |-> "empty", list |-> << >>] }
    \cup { [kind |-> "remote", list |-> l] : l \in lists }

\* the continuation of loadSteps after `await fetchSteps(...)` (lines 96-113)
StepsResponse ==
  \E req \in stepsReq :
    \E out \in Outcomes(RemoteSteps(req.pid)) :
      LET r0 == [Cur EXCEPT !.stepsReq = @ \ {req}]
      IN  /\ Apply(IF ~StepsFetchLive(req) THEN r0
                   ELSE IF out.kind = "remote" THEN StepsRemote(r0, req, out.list)
                   ELSE StepsFallback(r0, req, "local"))
          /\ lastEv' = Ev("stepsResp", StaleStepsReq(req),
                          IF StaleStepsReq(req) THEN "none" ELSE out.kind)
          /\ UNCHANGED << actionTone, showStepDialog, editingStep, dialogBusy, persistReq, clock, edits >>

\* if (!isMounted) return;   (lines 143, 157, 165)
SubtasksFetchLive(req) == req.mounted

\* (prev) => prev && collection.some((st) => st.id === prev) ? prev : collection[0]?.id ?? null
KeepOrFirst(prev, collection) ==
  IF prev # Null /\ HasId(collection, prev) THEN prev ELSE FirstId(collection)

\* lines 144-146 and 151-155: a non-empty answer
SubtasksRemote(r0, req, fetched) ==
  LET r1 == [r0 EXCEPT !.subtasks = fetched, !.subtaskError = "none",
                       !.synced = FALSE, !.subsPropOf = Null,
                       !.selectedSubtaskId = KeepOrFirst(@, fetched),
                       !.loadingSubtasks = FALSE]
      d1 == [Clean EXCEPT !.subtasks = TRUE,
                          !.selSub = r1.selectedSubtaskId # r0.selectedSubtaskId]
  IN  Settle(r1, d1)

\* setSubtasks(selectedStep.subtasks) of the empty branch (148-155) and the catch (158-163);
\* the array is the one already held when selectedStep.subtasks === subtasks
SubtasksFallback(r0, req, err) ==
  LET same == r0.synced
      r1 == [r0 EXCEPT !.subtasks = req.fb, !.subtaskError = err,
                       !.synced = TRUE,
                       !.subsPropOf = IF same THEN @ ELSE IF req.fbProp THEN req.sid ELSE Null,
                       !.selectedSubtaskId = KeepOrFirst(@, req.fb),
                       !.loadingSubtasks = FALSE]
      d1 == [Clean EXCEPT !.subtasks = ~same,
                          !.selSub = r1.selectedSubtaskId # r0.selectedSubtaskId]
  IN  Settle(r1, d1)

\* the continuation of loadSubtasks after `await fetchSubtasks(...)` (lines 143-166)
SubtasksResponse ==
  \E req \in subtasksReq :
    \E out \in Outcomes(RemoteSubtasks(req.sid)) :
      LET r0 == [Cur EXCEPT !.subtasksReq = @ \ {req}]
      IN  /\ Apply(IF ~SubtasksFetchLive(req) THEN r0
                   ELSE IF out.kind = "remote" THEN SubtasksRemote(r0, req, out.list)
                   ELSE SubtasksFallback(r0, req, "local"))
          /\ lastEv' = Ev("subtasksResp", StaleSubtasksReq(req),
                          IF StaleSubtasksReq(req) THEN "none" ELSE out.kind)
          /\ UNCHANGED << actionTone, showStepDialog, editingStep, dialogBusy, persistReq, clock, edits >>

\* ------------------------------------------------- parameters of the slices
\* how many of the five filters are set
ActiveFilters(r) ==
  (IF r.stepSearch # << >> THEN 1 ELSE 0) + (IF r.stepStatusFilter # "all" THEN 1 ELSE 0)
  + (IF r.stepAssigneeFilter # Null THEN 1 ELSE 0) + (IF r.subtaskSearch # << >> THEN 1 ELSE 0)
  + (IF r.subtaskStatusFilter # "all" THEN 1 ELSE 0)

\* onChange of the step search box (line 502)
SetStepSearch ==
  \E v \in SearchTexts \ {stepSearch} :
    /\ ~showStepDialog
    /\ ActiveFilters([Cur EXCEPT !.stepSearch = v]) <= MaxActiveFilters
    /\ Apply(Settle([Cur EXCEPT !.stepSearch = v], [Clean EXCEPT !.stepQuery = TRUE]))
    /\ lastEv' = Ev("param", FALSE, "none")
    /\ UNCHANGED << actionTone, showStepDialog, editingStep, dialogBusy, persistReq, clock, edits >>

\* onChange of the step status select (line 507)
SetStepStatusFilter ==
  \E v \in StatusFilters \ {stepStatusFilter} :
    /\ ~showStepDialog
    /\ ActiveFilters([Cur EXCEPT !.stepStatusFilter = v]) <= MaxActiveFilters
    /\ Apply(Settle([Cur EXCEPT !.stepStatusFilter = v], [Clean EXCEPT !.stepQuery = TRUE]))
    /\ lastEv' = Ev("param", FALSE, "none")
    /\ UNCHANGED << actionTone, showStepDialog, editingStep, dialogBusy, persistReq, clock, edits >>

\* onChange of the step assignee select (lines 518-520)
SetStepAssigneeFilter ==
  \E v \in AssigneeFilters \ {stepAssigneeFilter} :
    /\ ~showStepDialog
    /\ ActiveFilters([Cur EXCEPT !.stepAssigneeFilter = v]) <= MaxActiveFilters
    /\ Apply(Settle([Cur EXCEPT !.stepAssigneeFilter = v], [Clean EXCEPT !.stepQuery = TRUE]))
    /\ lastEv' = Ev("param", FALSE, "none")
    /\ UNCHANGED << actionTone, showStepDialog, editingStep, dialogBusy, persistReq, clock, edits >>

\* onChange of the subtask search box (line 580)
SetSubtaskSearch ==
  \E v \in SearchTexts \ {subtaskSearch} :
    /\ ~showStepDialog
    /\ ActiveFilters([Cur EXCEPT !.subtaskSearch = v]) <= MaxActiveFilters
    /\ Apply(Settle([Cur EXCEPT !.subtaskSearch = v], [Clean EXCEPT !.subQuery = TRUE]))
    /\ lastEv' = Ev("param", FALSE, "none")
    /\ UNCHANGED << actionTone, showStepDialog, editingStep, dialogBusy, persistReq, clock, edits >>

\* onChange of the subtask status select (line 585)
SetSubtaskStatusFilter ==
  \E v \in StatusFilters \ {subtaskStatusFilter} :
    /\ ~showStepDialog
    /\ ActiveFilters([Cur EXCEPT !.subtaskStatusFilter = v]) <= MaxActiveFilters
    /\ Apply(Settle([Cur EXCEPT !.subtaskStatusFilter = v], [Clean EXCEPT !.subQuery = TRUE]))
    /\ lastEv' = Ev("param", FALSE, "none")
    /\ UNCHANGED << actionTone, showStepDialog, editingStep, dialogBusy, persistReq, clock, edits >>

\* onClick of a step row: setSelectedStepId(step.id) (line 783)
SelectStep ==
  \E i \in 1..Len(steps) :
    /\ ~showStepDialog
    /\ steps[i].id # selectedStepId
    /\ LET r1 == [Cur EXCEPT !.selectedStepId = steps[i].id, !.synced = FALSE]
       IN  Apply(Settle(r1, [Clean EXCEPT !.selId = TRUE, !.selObj = ObjChanged(Cur, r1, FALSE)]))
    /\ lastEv' = Ev("param", FALSE, "none")
    /\ UNCHANGED << actionTone, showStepDialog, editingStep, dialogBusy, persistReq, clock, edits >>

\* onClick of a subtask row: setSelectedSubtaskId(st.id) (line 612)
SelectSubtask ==
  \E i \in 1..Len(subtasks) :
    /\ ~showStepDialog
    /\ subtasks[i].id # selectedSubtaskId
    /\ Apply(Settle([Cur EXCEPT !.selectedSubtaskId = subtasks[i].id],
                    [Clean EXCEPT !.selSub = TRUE]))
    /\ lastEv' = Ev("param", FALSE, "none")
    /\ UNCHANGED << actionTone, showStepDialog, editingStep, dialogBusy, persistReq, clock, edits >>

\* the objects of a list are no longer those of project.steps
Untag(ss) == [i \in 1..Len(ss) |-> [ss[i] EXCEPT !.prop = FALSE]]

\* App renders the panel with another selected project (App.tsx lines 327-331)
ChangeProject ==
  \E pid \in ProjectIds \ {project} :
    /\ ~showStepDialog
    /\ LET r1 == [Cur EXCEPT !.project = pid, !.steps = Untag(@), !.stepsIsProp = FALSE,
                             !.subsPropOf = Null]
       IN  Apply(Settle(r1, [Clean EXCEPT !.project = TRUE]))
    /\ lastEv' = Ev("param", FALSE, "none")
    /\ UNCHANGED << actionTone, showStepDialog, editingStep, dialogBusy, persistReq, clock, edits >>

\* ------------------------------------------------------------ App actions
\* the start-up read is for the unfiltered query, whatever is selected by now
StaleLoad == ProjectQuery(AppCur) # EmptyQuery

\* the continuation of load after `await Promise.all(...)` (lines 73-91); out is the
\* answer of fetchProjects({}), pms tells whether fetchPMs answered a non-empty
\* directory, others whether fetchWorkspace, fetchPMs and fetchCategories all succeeded
LoadResponse ==
  \E out \in {"fail", "empty", "remote"}, pms \in BOOLEAN, others \in BOOLEAN :
    LET ok == [AppCur EXCEPT
                 !.pmDirectory = IF pms THEN "fetched" ELSE "seed",
                 !.categories = seedCategories,
                 !.projects = IF out = "remote" THEN Filtered(EmptyQuery) ELSE seedProjects,
                 !.error = FALSE, !.loading = FALSE, !.loadReq = FALSE]
        ko == [AppCur EXCEPT
                 !.pmDirectory = "seed", !.categories = seedCategories,
                 !.projects = seedProjects,
                 !.error = TRUE, !.loading = FALSE, !.loadReq = FALSE]
        rejected == out = "fail" \/ ~others
        r1 == IF rejected THEN ko ELSE ok
        d1 == [mount |-> FALSE,
               query |-> r1.error # error \/ (~rejected /\ pms) \/ r1.pmDirectory # pmDirectory,
               sel |-> TRUE]
    IN  /\ loadReq
        /\ rejected => ~pms
        /\ out = "fail" => others
        /\ AppApply(AppSettle(r1, d1))
        /\ lastEv' = Ev("loadResp", StaleLoad, out)

StaleProjectsReq(req) == req.stale \/ req.q # ProjectQuery(AppCur)

\* if (!isMounted) return;   (lines 108, 111)
ProjectsFetchLive(req) == req.mounted

\* setProjects(fetched.length ? fetched : seedProjects)   (line 109)
ProjectsRemote(r0, fetched) ==
  AppSettle([r0 EXCEPT !.projects = IF Len(fetched) > 0 THEN fetched ELSE seedProjects],
            [AppClean EXCEPT !.sel = TRUE])

\* the catch of loadProjects (lines 111-113)
ProjectsFailed(r0) ==
  AppSettle([r0 EXCEPT !.projects = seedProjects, !.error = TRUE],
            [AppClean EXCEPT !.sel = TRUE, !.query = ~r0.error])

\* the continuation of loadProjects after `await fetchProjects(...)` (lines 108-114)
ProjectsResponse ==
  \E req \in projectsReq :
    \E out \in {"fail", "empty", "remote"} :
      LET r0 == [AppCur EXCEPT !.projectsReq = @ \ {req}]
          fetched == IF out = "remote" THEN Alive(Filtered(req.q), deletedCategories) ELSE << >>
      IN  /\ out = "remote" => Len(fetched) > 0
          /\ AppApply(IF ~ProjectsFetchLive(req) THEN r0
                      ELSE IF out = "fail" THEN ProjectsFailed(r0)
                      ELSE ProjectsRemote(r0, fetched))
          /\ lastEv' = Ev("projectsResp", StaleProjectsReq(req),
                          IF StaleProjectsReq(req) THEN "none" ELSE out)
  
\* onProjectFilter={setProjectFilter} (line 297)
SetProjectFilter ==
  \E v \in ProjectFilters \ {projectFilter} :
    /\ editingCategory = Null
    /\ AppApply(AppSettle([AppCur EXCEPT !.projectFilter = v], [AppClean EXCEPT !.query = TRUE]))
    /\ lastEv' = Ev("param", FALSE, "none")

\* onSelectCategory={setSelectedCategoryId} (line 292)
SelectCategory ==
  \E i \in 1..Len(categories) :
    /\ categories[i] # selectedCategoryId
    /\ editingCategory = Null
    /\ AppApply(AppSettle([AppCur EXCEPT !.selectedCategoryId = categories[i]],
                          [AppClean EXCEPT !.query = TRUE, !.sel = TRUE]))
    /\ lastEv' = Ev("param", FALSE, "none")

\* handleSelectProject (lines 168-171)
SelectProject ==
  \E i \in 1..Len(projects) :
    /\ projects[i].id # selectedProjectId
    /\ editingCategory = Null
    /\ AppApply(AppSettle([AppCur EXCEPT !.selectedCategoryId = projects[i].category_id,
                                         !.selectedProjectId = projects[i].id],
                          [AppClean EXCEPT !.query = projects[i].category_id # selectedCategoryId,
                                           !.sel = TRUE]))
    /\ lastEv' = Ev("param", FALSE, "none")

\* the delete button of the category list (LeftPanel.tsx lines 66-72, App.tsx
\* lines 301-304): the CategoryDialog opens for the selected category
OpenCategoryDialog ==
  /\ editingCategory = Null
  /\ ~showCategoryDialog
  /\ ~showProjectDialog
  /\ Member(categories, selectedCategoryId)
  /\ AppApply([AppCur EXCEPT !.editingCategory = selectedCategoryId,
                             !.showCategoryDialog = TRUE, !.dialogError = FALSE])
  /\ lastEv' = Ev("openCategory", FALSE, "none")

\* the calls the CategoryDialog awaits through onSave
CategoryCalls == {"createCategory", "updateCategory"}

\* the calls the ProjectDialog awaits through onSave and onDelete
ProjectCalls == {"createProject", "updateProject", "deleteProject"}

\* onClose of the CategoryDialog (lines 347-350)
CloseCategoryDialog ==
  /\ showCategoryDialog
  /\ AppApply([AppCur EXCEPT !.editingCategory = Null, !.showCategoryDialog = FALSE,
                             !.dialogError = FALSE,
                             !.adminReq = IF @.kind \in CategoryCalls
                                          THEN [@ EXCEPT !.closed = TRUE] ELSE @])
  /\ lastEv' = Ev("closeCategory", FALSE, "none")

\* the dialog's delete button: handleDeleteCategory up to its await (lines 202-204)
DeleteCategory ==
  /\ editingCategory # Null
  /\ categoryReq = Null
  /\ AppApply([AppCur EXCEPT !.categoryReq = editingCategory])
  /\ lastEv' = Ev("deleteCategory", FALSE, "none")

\* prev.filter((c) => c.id !== editingCategory.id)   (line 205)
WithoutCategory(cats, id) == SelectSeq(cats, LAMBDA c : c # id)

\* prev.filter((p) => p.category_id !== editingCategory.id)   (line 206)
WithoutProjectsOf(ps, id) == SelectSeq(ps, LAMBDA proj : proj.category_id # id)

\* handleDeleteCategory after `await deleteCategory(...)` (lines 205-209) followed by
\* the dialog's onClose; a rejected request leaves App as it is
DeleteCategoryResponse ==
  \E out \in {"ok", "fail"} :
    LET id == categoryReq
        r1 == [AppCur EXCEPT !.categoryReq = Null,
                             !.editingCategory = Null,
                             !.showCategoryDialog = FALSE,
                             !.dialogError = FALSE,
                             !.deletedCategories = @ \cup {id},
                             !.categories = WithoutCategory(@, id),
                             !.projects = WithoutProjectsOf(@, id),
                             !.selectedCategoryId = Null,
                             !.selectedProjectId = Null]
    IN  /\ categoryReq # Null
        /\ AppApply(IF out = "fail"
                    THEN [AppCur EXCEPT !.categoryReq = Null,
                                        !.dialogError = @ \/ editingCategory = id]
                    ELSE AppSettle(r1, [AppClean EXCEPT !.query = selectedCategoryId # Null,
                                                        !.sel = TRUE]))
        /\ lastEv' = EvMut("deleteCategoryResp", out, id, Null)

\* handleOpenKpi up to its await (lines 251-253)
OpenKpi ==
  /\ editingCategory = Null
  /\ ~kpiReq
  /\ AppApply([AppCur EXCEPT !.kpiReq = TRUE])
  /\ lastEv' = Ev("openKpi", FALSE, "none")

\* handleOpenKpi after `await fetchKpi(...)` (lines 254-259)
KpiResponse ==
  \E out \in {"ok", "fail"} :
    LET r1 == [AppCur EXCEPT !.kpiReq = FALSE, !.error = (out = "fail")]
    IN  /\ kpiReq
        /\ AppApply(AppSettle(r1, [AppClean EXCEPT !.query = r1.error # error]))
        /\ lastEv' = Ev("kpiResp", FALSE, out)

\* the ids the backend gives to the category and to the project created by the
\* n-th call: above those it holds
NewCategoryId(n) == 2 + n

NewProjectId(n) == 3 + n

\* onNewCategory: openCategoryDialog(null) (lines 262-265, 276)
NewCategory ==
  /\ ~showCategoryDialog
  /\ ~showProjectDialog
  /\ AppApply([AppCur EXCEPT !.editingCategory = Null, !.showCategoryDialog = TRUE,
                             !.dialogError = FALSE])
  /\ lastEv' = Ev("openCategory", FALSE, "none")

\* CategoryDialog.handleSubmit (lines 16-24) calling handleSaveCategory up to its
\* await (App.tsx lines 186-188 and 194)
SaveCategory ==
  /\ showCategoryDialog
  /\ adminReq = NoAdminReq
  /\ categoryReq = Null
  /\ calls < MaxCalls
  /\ AppApply([AppCur EXCEPT
                 !.calls = @ + 1,
                 !.adminReq = [kind |-> IF editingCategory = Null THEN "createCategory"
                                        ELSE "updateCategory",
                               id |-> editingCategory, cat |-> Null, n |-> calls + 1,
                               closed |-> FALSE]])
  /\ lastEv' = Ev("saveCategory", FALSE, "none")

\* the dialog's catch (CategoryDialog lines 25-27, ProjectDialog lines 93-95 and
\* 106-108): the rejection reaches the dialog that made the call, which shows
\* its error line while it is still rendered
\* a handler that clears the selection before it awaits the call
RejectedCleared(r0, req) ==
  [r0 EXCEPT !.selectedProjectId = Null, !.dialogError = @ \/ ~req.closed]

Rejected(r0, req) ==
  [r0 EXCEPT !.dialogError = @ \/ ~req.closed]

\* handleSaveCategory after its await (lines 189-199), then the dialog's onClose
SaveCategoryResponse ==
  \E out \in {"ok", "fail"} :
    LET req == adminReq
        r0 == [AppCur EXCEPT !.adminReq = NoAdminReq]
        saved == IF req.kind = "updateCategory" THEN [r0 EXCEPT !.error = FALSE]
                 ELSE [r0 EXCEPT !.categories = Append(@, NewCategoryId(req.n)),
                                 !.selectedCategoryId = NewCategoryId(req.n),
                                 !.error = FALSE]
        r1 == [saved EXCEPT !.showCategoryDialog = FALSE, !.editingCategory = Null,
                            !.dialogError = FALSE]
    IN  /\ req.kind \in CategoryCalls
        /\ AppApply(IF out = "fail" THEN Rejected(r0, req)
                    ELSE AppSettle(r1, [AppClean EXCEPT
                                          !.query = r1.error # error
                                                    \/ r1.selectedCategoryId # selectedCategoryId,
                                          !.sel = TRUE]))
        /\ lastEv' = EvMut("saveCategoryResp", out, req.id, Null)

\* onEditProject, onDeleteProject and the card's onEdit: openProjectDialog(project)
\* (lines 267-270, 305-309, 324) for a project the left panel lists under its
\* category (lines 140-145)
OpenProjectDialog ==
  \E i \in 1..Len(projects) :
    /\ ~showCategoryDialog
    /\ ~showProjectDialog
    /\ Member(categories, projects[i].category_id)
    /\ AppApply([AppCur EXCEPT !.editingProject = projects[i].id, !.showProjectDialog = TRUE,
                               !.dialogError = FALSE])
    /\ lastEv' = Ev("openProject", FALSE, "none")

\* onNewProject: openProjectDialog(null) (line 277)
NewProject ==
  /\ ~showCategoryDialog
  /\ ~showProjectDialog
  /\ AppApply([AppCur EXCEPT !.editingProject = Null, !.showProjectDialog = TRUE,
                             !.dialogError = FALSE])
  /\ lastEv' = Ev("openProject", FALSE, "none")

\* onClose of the ProjectDialog (lines 361-364)
CloseProjectDialog ==
  /\ showProjectDialog
  /\ AppApply([AppCur EXCEPT !.editingProject = Null, !.showProjectDialog = FALSE,
                             !.dialogError = FALSE,
                             !.adminReq = IF @.kind \in ProjectCalls
                                          THEN [@ EXCEPT !.closed = TRUE] ELSE @])
  /\ lastEv' = Ev("closeProject", FALSE, "none")

\* the category of the form: any option of the select, or the one the form was
\* opened with   (ProjectDialog line 39)
FormCategories ==
  { categories[i] : i \in 1..Len(categories) }
    \cup { projects[i].category_id : i \in { j \in 1..Len(projects) : projects[j].id = editingProject } }

\* ProjectDialog.handleSubmit (lines 64-91) calling handleSaveProject up to its
\* await (App.tsx lines 212-214 and 220)
SaveProject ==
  \E cat \in FormCategories :
    /\ showProjectDialog
    /\ adminReq = NoAdminReq
    /\ calls < MaxCalls
    /\ AppApply([AppCur EXCEPT
                   !.calls = @ + 1,
                   !.adminReq = [kind |-> IF editingProject = Null THEN "createProject"
                                          ELSE "updateProject",
                                 id |-> editingProject, cat |-> cat, n |-> calls + 1,
                                 closed |-> FALSE]])
    /\ lastEv' = Ev("saveProject", FALSE, "none")

\* prev.map((p) => (p.id === updated.id ? { ...p, ...updated } : p))   (line 215)
MergeProject(ps, id, cat) ==
  [i \in 1..Len(ps) |-> IF ps[i].id = id THEN [ps[i] EXCEPT !.category_id = cat] ELSE ps[i]]

\* handleSaveProject after its await (lines 215-226), then the dialog's onClose
SaveProjectResponse ==
  \E out \in {"ok", "fail"} :
    LET req == adminReq
        r0 == [AppCur EXCEPT !.adminReq = NoAdminReq]
        saved == IF req.kind = "updateProject"
                 THEN [r0 EXCEPT !.projects = MergeProject(@, req.id, req.cat),
                                 !.selectedProjectId = req.id,
                                 !.selectedCategoryId = req.cat,
                                 !.error = FALSE]
                 ELSE [r0 EXCEPT !.projects =
                                    Append(@, [Project(NewProjectId(req.n), req.cat, Todo, << "n" >>)
                                                 EXCEPT !.steps = << >>]),
                                 !.selectedProjectId = NewProjectId(req.n),
                                 !.selectedCategoryId = req.cat,
                                 !.error = FALSE]
        r1 == [saved EXCEPT !.showProjectDialog = FALSE, !.editingProject = Null,
                            !.dialogError = FALSE]
    IN  /\ req.kind \in {"createProject", "updateProject"}
        /\ AppApply(IF out = "fail" THEN Rejected(r0, req)
                    ELSE AppSettle(r1, [AppClean EXCEPT
                                          !.query = r1.error # error
                                                    \/ r1.selectedCategoryId # selectedCategoryId,
                                          !.sel = TRUE]))
        /\ lastEv' = EvMut("saveProjectResp", out, req.id, Null)

\* ProjectDialog.handleDelete (lines 100-104) calling handleDeleteProject up to
\* its await (App.tsx lines 229-231)
DeleteProject ==
  /\ showProjectDialog
  /\ editingProject # Null
  /\ adminReq = NoAdminReq
  /\ calls < MaxCalls
  /\ AppApply([AppCur EXCEPT
                 !.calls = @ + 1,
                 !.adminReq = [kind |-> "deleteProject", id |-> editingProject,
                               cat |-> Null, n |-> calls + 1, closed |-> FALSE]])
  /\ lastEv' = Ev("deleteProject", FALSE, "none")

\* prev.filter((p) => p.id !== editingProject.id)   (line 232)
WithoutProject(ps, id) == SelectSeq(ps, LAMBDA proj : proj.id # id)

\* handleDeleteProject after its await (lines 232-234), then the dialog's onClose
DeleteProjectResponse ==
  \E out \in {"ok", "fail"} :
    LET req == adminReq
        r0 == [AppCur EXCEPT !.adminReq = NoAdminReq]
        r1 == [r0 EXCEPT !.projects = WithoutProject(@, req.id),
                         !.selectedProjectId = Null,
                         !.showProjectDialog = FALSE, !.editingProject = Null,
                         !.dialogError = FALSE]
    IN  /\ req.kind = "deleteProject"
        /\ AppApply(IF out = "fail" THEN Rejected(r0, req)
                    ELSE AppSettle(r1, [AppClean EXCEPT !.sel = TRUE]))
        /\ lastEv' = EvMut("deleteProjectResp", out, req.id, Null)

\* ----------------------------------------------------------- search boxes
\* the white space typed between two words
Gaps == { << >>, << " " >>, << " ", " " >>, << " ", " ", " " >> }

\* the words typed: plain words, tokens with a recognized key in either case, a
\* token with an unknown key, a comparison written without the colon
Words ==
  { << >>,
    Oven,
    << "U+0414", "U+0443", "U+0445", "U+043E", "U+0432", "U+043E", "U+0439" >>,
    << "s", "t", "a", "t", "u", "s", ":" >> \o InProgress,
    << "s", "t", "a", "t", "u", "s", ":" >> \o Todo,
    << "S", "T", "A", "T", "U", "S", ":", "D", "o", "n", "e" >>,
    << "w", "e", "i", "g", "h", "t", ">", "0", ".", "5" >>,
    << "w", "e", "i", "g", "h", "t", ":", ">", "0", ".", "5" >>,
    << "w", "e", "i", "g", "h", "t", ":", "=", "0" >>,
    << "h", "a", "s", ":", "f", "i", "l", "e", "s" >>,
    << "x", ":", "y" >> }

\* onChange of a search box (StepsPanel.tsx lines 502, 580, LeftPanel onProjectFilter):
\* the text grows by a gap and a word; the component renders with the new text,
\* which recomputes the filtered views and re-runs the fetch effect of the slice
SetSearchInput ==
  \E gap \in Gaps, word \in Words :
    LET pieces == Append(searchInput, gap \o word)
        text == Joined(pieces)
    IN  /\ Len(searchInput) < MaxPieces
        /\ Len(gap \o word) > 0
        /\ searchInput' = pieces
        /\ parseResult' = parseTokensAt(text, lastIndex)
        /\ lastIndex' = ExecLastIndex(text, 1)
        /\ sent' = SentFor(text)
        /\ shown' = ShownFor(parseResult')
        /\ lastEv' = Ev("search", FALSE, "none")
        /\ UNCHANGED << appVars, panelVars, aggVars, focus >>

\* the characters typed one by one: a word character, the colon, white space
\* and a character that is neither
Chars == {"a", ":", " ", "-"}

\* onChange of a search box after one more character was typed
TypeChar ==
  \E c \in Chars :
    LET pieces == Append(searchInput, << c >>)
        text == Joined(pieces)
    IN  /\ Len(searchInput) < MaxChars
        /\ searchInput' = pieces
        /\ parseResult' = parseTokensAt(text, lastIndex)
        /\ lastIndex' = ExecLastIndex(text, 1)
        /\ sent' = SentFor(text)
        /\ shown' = ShownFor(parseResult')
        /\ lastEv' = Ev("search", FALSE, "none")
        /\ UNCHANGED << appVars, panelVars, aggVars, focus >>

\* ------------------------------------------------------ optimistic changes
\* what the user can type into a weight field
WeightInputs == {0, 2}

\* ids the backend gives to created steps and subtasks
NewStepIds == {91, 92}

NewSubtaskIds == {991, 992}

Min(S) == CHOOSE x \in S : \A y \in S : x <= y

IdsOf(seq) == { seq[i].id : i \in 1..Len(seq) }

\* the boundary validation of the backend: a weight must be positive
BackendAccepts(w) == w > 0

\* a mutation request in flight: the values its continuation closes over;
\* deleted is history: the user deleted the entity the request is about
Persist(kind, id, key, oi, w) ==
  [kind |-> kind, id |-> id, key |-> key, oi |-> oi, w |-> w, deleted |-> FALSE]

MarkDeleted(reqs, kinds, id) ==
  { IF q.kind \in kinds /\ q.id = id THEN [q EXCEPT !.deleted = TRUE] ELSE q : q \in reqs }

\* Date.now(): never before an earlier reading
Now == { t \in 1..MaxClock : t >= clock }

\* handleAddStep (lines 259-305) up to the call of createStep
AddStep ==
  \E t \in Now :
    LET tempId == 0 - t
        optimisticStep == Step(tempId, Len(steps) + 1, 1, << >>, FALSE)
        r1 == [Cur EXCEPT !.steps = Append(@, optimisticStep), !.stepsIsProp = FALSE,
                          !.selectedStepId = tempId,
                          !.synced = IF tempId = selectedStepId THEN @ ELSE FALSE]
        d1 == [Clean EXCEPT !.steps = TRUE, !.selId = tempId # selectedStepId,
                            !.selObj = ObjChanged(Cur, r1, FALSE)]
    IN  /\ ~showStepDialog
        /\ Len(steps) < MaxLen
        /\ edits < MaxEdits
        /\ edits' = edits + 1
        /\ Apply(Settle(r1, d1))
        /\ persistReq' = persistReq \cup
                           {Persist("createStep", tempId, project, Len(steps) + 1, 1)}
        /\ clock' = t
        /\ lastEv' = EvMut("addStep", "none", tempId, tempId)
        /\ UNCHANGED << actionTone, showStepDialog, editingStep, dialogBusy >>

\* prev.map((s) => (s.id === tempId ? { ...created, subtasks: created.subtasks ?? [] } : s))
ConfirmStep(ss, tempId, created) ==
  [i \in 1..Len(ss) |-> IF ss[i].id = tempId THEN created ELSE ss[i]]

\* the continuation of persist in handleAddStep (lines 281-302)
AddStepResponse ==
  \E req \in persistReq :
    /\ req.kind = "createStep"
    /\ \/ /\ NewStepIds \ IdsOf(steps) # {}
          /\ LET nid == Min(NewStepIds \ IdsOf(steps))
                 created == Step(nid, req.oi, req.w, << >>, FALSE)
                 r1 == [Cur EXCEPT !.steps = ConfirmStep(@, req.id, created),
                                   !.stepsIsProp = FALSE,
                                   !.selectedStepId = nid, !.synced = FALSE]
                 d1 == [Clean EXCEPT !.steps = TRUE, !.selId = TRUE,
                                     !.selObj = ObjChanged(Cur, r1, FALSE)]
             IN  /\ Apply(Settle(r1, d1))
                 /\ actionTone' = "info"
                 /\ lastEv' = [EvMut("addStepOk", "ok", nid, req.id) EXCEPT
                                 !.stale = req.deleted \/ req.key # project]
       \/ /\ Apply(Cur)
          /\ actionTone' = "warning"
          /\ lastEv' = EvMut("addStepFail", "fail", req.id, req.id)
    /\ persistReq' = persistReq \ {req}
    /\ UNCHANGED << showStepDialog, editingStep, dialogBusy, clock, edits >>

\* filtered.map((s, idx) => ({ ...s, order_index: idx + 1 }))
Renumber(ss) == [i \in 1..Len(ss) |-> [ss[i] EXCEPT !.order_index = i, !.prop = FALSE]]

Without(seq, id) == SelectSeq(seq, LAMBDA e : e.id # id)

\* handleDeleteStep (lines 325-353) up to the call of deleteStep
DeleteStep ==
  LET remaining == Without(steps, selectedStepId)
      r1 == [Cur EXCEPT !.steps = Renumber(remaining), !.stepsIsProp = FALSE,
                        !.selectedStepId = FirstId(remaining),
                        !.subtasks = << >>, !.subsPropOf = Null, !.synced = FALSE]
      d1 == [Clean EXCEPT !.steps = TRUE, !.selId = TRUE,
                          !.selObj = TRUE, !.subtasks = TRUE]
  IN  /\ ~showStepDialog
      /\ selectedStepId # Null
      /\ HasId(steps, selectedStepId)
      /\ edits < MaxEdits
      /\ edits' = edits + 1
      /\ Apply(Settle(r1, d1))
      /\ persistReq' = MarkDeleted(persistReq, {"createStep"}, selectedStepId)
                         \cup {Persist("deleteStep", selectedStepId, project, 0, 0)}
      /\ lastEv' = EvMut("deleteStep", "none", selectedStepId, Null)
      /\ UNCHANGED << actionTone, showStepDialog, editingStep, dialogBusy, clock >>

\* the continuation of persist in handleDeleteStep (lines 340-350) and in
\* handleDeleteSubtask (lines 414-425): only the message changes
DeleteResponse ==
  \E req \in persistReq :
    /\ req.kind \in {"deleteStep", "deleteSubtask"}
    /\ \E tone \in {"info", "warning"} : actionTone' = tone
    /\ Apply(Cur)
    /\ persistReq' = persistReq \ {req}
    /\ lastEv' = Ev("deleteResp", FALSE, "none")
    /\ UNCHANGED << showStepDialog, editingStep, dialogBusy, clock, edits >>

\* an optimistic subtask that always takes the first place
FirstPlaceSubtask(prev, tempId) == Subtask(tempId, 1, 1)

\* the entity the updater of lines 360-376 appends to prev
OptimisticSubtask(prev, tempId) == Subtask(tempId, Len(prev) + 1, 1)

\* handleAddSubtask (lines 355-402) up to the call of createSubtask
AddSubtask ==
  \E t \in Now :
    LET tempId == 0 - t
        r1 == [Cur EXCEPT !.subtasks = Append(@, OptimisticSubtask(@, tempId)),
                          !.subsPropOf = Null, !.synced = FALSE,
                          !.selectedSubtaskId = tempId]
        d1 == [Clean EXCEPT !.subtasks = TRUE, !.selSub = tempId # selectedSubtaskId]
    IN  /\ ~showStepDialog
        /\ SelectedStepIdx(Cur) # 0
        /\ Len(subtasks) < MaxLen
        /\ edits < MaxEdits
        /\ edits' = edits + 1
        /\ Apply(Settle(r1, d1))
        /\ persistReq' = persistReq \cup
                           {Persist("createSubtask", tempId, selectedStepId, Len(subtasks) + 1, 1)}
        /\ clock' = t
        /\ lastEv' = EvMut("addSubtask", "none", tempId, tempId)
        /\ UNCHANGED << actionTone, showStepDialog, editingStep, dialogBusy >>

\* prev.map((st) => (st.id === id ? { ...st, ...entity } : st))
MergeSubtask(subs, id, entity) ==
  [i \in 1..Len(subs) |-> IF subs[i].id = id THEN entity ELSE subs[i]]

\* the continuation of persist in handleAddSubtask (lines 379-399)
AddSubtaskResponse ==
  \E req \in persistReq :
    /\ req.kind = "createSubtask"
    /\ \/ /\ NewSubtaskIds \ IdsOf(subtasks) # {}
          /\ LET nid == Min(NewSubtaskIds \ IdsOf(subtasks))
                 created == Subtask(nid, req.oi, req.w)
                 r1 == [Cur EXCEPT !.subtasks = MergeSubtask(@, req.id, created),
                                   !.subsPropOf = Null, !.synced = FALSE,
                                   !.selectedSubtaskId = nid]
                 d1 == [Clean EXCEPT !.subtasks = TRUE, !.selSub = nid # selectedSubtaskId]
             IN  /\ Apply(Settle(r1, d1))
                 /\ actionTone' = "info"
                 /\ lastEv' = [EvMut("addSubtaskOk", "ok", nid, req.id) EXCEPT
                                 !.stale = req.deleted \/ req.key # selectedStepId]
       \/ /\ Apply(Cur)
          /\ actionTone' = "warning"
          /\ lastEv' = EvMut("addSubtaskFail", "fail", req.id, req.id)
    /\ persistReq' = persistReq \ {req}
    /\ UNCHANGED << showStepDialog, editingStep, dialogBusy, clock, edits >>

\* handleDeleteSubtask (lines 404-428) up to the call of deleteSubtask
DeleteSubtask ==
  LET remaining == Without(subtasks, selectedSubtaskId)
      r1 == [Cur EXCEPT !.subtasks = remaining, !.subsPropOf = Null, !.synced = FALSE,
                        !.selectedSubtaskId = FirstId(remaining)]
      d1 == [Clean EXCEPT !.subtasks = TRUE, !.selSub = TRUE]
  IN  /\ ~showStepDialog
      /\ selectedStepId # Null
      /\ HasId(subtasks, selectedSubtaskId)
      /\ edits < MaxEdits
      /\ edits' = edits + 1
      /\ Apply(Settle(r1, d1))
      /\ persistReq' = MarkDeleted(persistReq, {"createSubtask", "updateSubtask"},
                                   selectedSubtaskId)
                         \cup {Persist("deleteSubtask", selectedSubtaskId, selectedStepId, 0, 0)}
      /\ lastEv' = EvMut("deleteSubtask", "none", selectedSubtaskId, Null)
      /\ UNCHANGED << actionTone, showStepDialog, editingStep, dialogBusy, clock >>

\* prev.map((st) => (st.id === selectedSubtask.id ? { ...st, ...payload } : st))
SetSubtaskWeight(subs, id, w) ==
  [i \in 1..Len(subs) |-> IF subs[i].id = id THEN [subs[i] EXCEPT !.weight = w] ELSE subs[i]]

\* handleUpdateSubtask (lines 430-460) up to the call of updateSubtask
UpdateSubtask ==
  \E w \in WeightInputs :
    LET r1 == [Cur EXCEPT !.subtasks = SetSubtaskWeight(@, selectedSubtaskId, w),
                          !.subsPropOf = Null, !.synced = FALSE]
    IN  /\ ~showStepDialog
        /\ HasId(subtasks, selectedSubtaskId)
        /\ edits < MaxEdits
        /\ edits' = edits + 1
        /\ Apply(Settle(r1, [Clean EXCEPT !.subtasks = TRUE]))
        /\ persistReq' = persistReq \cup
                           {Persist("updateSubtask", selectedSubtaskId, selectedStepId, 0, w)}
        /\ lastEv' = EvMut("updateSubtask", "none", selectedSubtaskId, Null)
        /\ UNCHANGED << actionTone, showStepDialog, editingStep, dialogBusy, clock >>

\* the continuation of persist in handleUpdateSubtask (lines 446-457)
UpdateSubtaskResponse ==
  \E req \in persistReq :
    /\ req.kind = "updateSubtask"
    /\ \/ /\ BackendAccepts(req.w)
          /\ LET r1 == [Cur EXCEPT !.subtasks = SetSubtaskWeight(@, req.id, req.w),
                                   !.subsPropOf = Null, !.synced = FALSE]
             IN  Apply(Settle(r1, [Clean EXCEPT !.subtasks = TRUE]))
          /\ actionTone' = "info"
          /\ lastEv' = EvMut("updateSubtaskOk", "ok", req.id, Null)
       \/ /\ Apply(Cur)
          /\ actionTone' = "warning"
          /\ lastEv' = EvMut("updateSubtaskFail", "fail", req.id, Null)
    /\ persistReq' = persistReq \ {req}
    /\ UNCHANGED << showStepDialog, editingStep, dialogBusy, clock, edits >>

\* ------------------------------------------------------------- StepDialog
\* the edit button of the selected step (lines 553-557)
OpenStepDialog ==
  /\ ~showStepDialog
  /\ SelectedStepIdx(Cur) # 0
  /\ showStepDialog' = TRUE
  /\ editingStep' = selectedStepId
  /\ dialogBusy' = FALSE
  /\ Apply(Cur)
  /\ lastEv' = Ev("dialog", FALSE, "none")
  /\ UNCHANGED << actionTone, persistReq, clock, edits >>

\* onClose (lines 835-838); the dialog unmounts and its loading flag goes with it
CloseStepDialog ==
  /\ showStepDialog
  /\ showStepDialog' = FALSE
  /\ editingStep' = Null
  /\ dialogBusy' = FALSE
  /\ Apply(Cur)
  /\ lastEv' = Ev("dialog", FALSE, "none")
  /\ UNCHANGED << actionTone, persistReq, clock, edits >>

\* StepDialog.handleSubmit (StepDialog.tsx lines 41-59) into handleStepDialogSave
\* up to the call of updateStep (lines 307-309)
StepDialogSubmit ==
  \E w \in WeightInputs :
    /\ showStepDialog /\ ~dialogBusy
    /\ editingStep # Null
    /\ edits < MaxEdits
    /\ edits' = edits + 1
    /\ dialogBusy' = TRUE
    /\ persistReq' = persistReq \cup {Persist("updateStep", editingStep, project, 0, w)}
    /\ Apply(Cur)
    /\ lastEv' = Ev("dialog", FALSE, "none")
    /\ UNCHANGED << actionTone, showStepDialog, editingStep, clock >>

\* prev.map((s) => (s.id === updated.id ? { ...s, ...updated } : s))
MergeStep(ss, id, w) ==
  [i \in 1..Len(ss) |->
     IF ss[i].id = id THEN [ss[i] EXCEPT !.weight = w, !.prop = FALSE] ELSE ss[i]]

\* handleStepDialogSave after `await updateStep(...)` (lines 310-314), then
\* StepDialog.handleSubmit lines 60-65
StepDialogSaveResponse ==
  \E req \in persistReq :
    /\ req.kind = "updateStep"
    /\ \/ /\ BackendAccepts(req.w)
          /\ LET r1 == [Cur EXCEPT !.steps = MergeStep(@, req.id, req.w),
                                   !.stepsIsProp = FALSE,
                                   !.selectedStepId = req.id,
                                   !.synced = IF req.id = selectedStepId THEN @ ELSE FALSE]
                 d1 == [Clean EXCEPT !.steps = TRUE, !.selId = req.id # selectedStepId,
                                     !.selObj = ObjChanged(Cur, r1, HasId(steps, req.id))]
             IN  Apply(Settle(r1, d1))
          /\ actionTone' = "info"
          /\ showStepDialog' = FALSE
          /\ editingStep' = Null
          /\ lastEv' = EvMut("updateStepOk", "ok", req.id, Null)
       \/ /\ Apply(Cur)
          /\ UNCHANGED << actionTone, showStepDialog, editingStep >>
          /\ lastEv' = EvMut("updateStepFail", "fail", req.id, Null)
    /\ dialogBusy' = FALSE
    /\ persistReq' = persistReq \ {req}
    /\ UNCHANGED << clock, edits >>

\* StepDialog.handleDelete (StepDialog.tsx lines 68-72) into onDelete up to the
\* call of deleteStep (line 827)
StepDialogDelete ==
  /\ showStepDialog /\ ~dialogBusy
  /\ editingStep # Null
  /\ edits < MaxEdits
  /\ edits' = edits + 1
  /\ dialogBusy' = TRUE
  /\ persistReq' = persistReq \cup {Persist("dialogDelete", editingStep, project, 0, 0)}
  /\ Apply(Cur)
  /\ lastEv' = Ev("dialog", FALSE, "none")
  /\ UNCHANGED << actionTone, showStepDialog, editingStep, clock >>

\* onDelete after `await deleteStep(...)` (lines 828-831), then StepDialog.handleDelete
\* lines 73-78
StepDialogDeleteResponse ==
  \E req \in persistReq :
    /\ req.kind = "dialogDelete"
    /\ \/ /\ LET r1 == [Cur EXCEPT !.steps = Without(@, req.id), !.stepsIsProp = FALSE,
                                   !.selectedStepId = Null, !.synced = FALSE]
                 d1 == [Clean EXCEPT !.steps = TRUE, !.selId = selectedStepId # Null,
                                     !.selObj = ObjChanged(Cur, r1, FALSE)]
             IN  Apply(Settle(r1, d1))
          /\ actionTone' = "warning"
          /\ showStepDialog' = FALSE
          /\ editingStep' = Null
          /\ lastEv' = EvMut("dialogDeleteOk", "ok", req.id, Null)
       \/ /\ Apply(Cur)
          /\ UNCHANGED << actionTone, showStepDialog, editingStep >>
          /\ lastEv' = EvMut("dialogDeleteFail", "fail", req.id, Null)
    /\ dialogBusy' = FALSE
    /\ persistReq' = persistReq \ {req}
    /\ UNCHANGED << clock, edits >>

Next ==
  \/ LoadResponse
  \/ ProjectsResponse
  \/ SetProjectFilter
  \/ SelectCategory
  \/ SelectProject
  \/ StepsResponse
  \/ SubtasksResponse
  \/ SetStepSearch
  \/ SetStepStatusFilter
  \/ SetStepAssigneeFilter
  \/ SetSubtaskSearch
  \/ SetSubtaskStatusFilter
  \/ SelectStep
  \/ ChangeProject

Spec == Init /\ [][Next]_vars

\* the panel of one project while steps are added and deleted from the toolbar
NextSteps ==
  \/ StepsResponse
  \/ SubtasksResponse
  \/ AddStep
  \/ AddStepResponse
  \/ DeleteStep
  \/ DeleteResponse

SpecSteps == Init /\ [][NextSteps]_vars

\* the panel of one project while the selected step is edited in the StepDialog
NextDialog ==
  \/ StepsResponse
  \/ SubtasksResponse
  \/ OpenStepDialog
  \/ CloseStepDialog
  \/ StepDialogSubmit
  \/ StepDialogSaveResponse
  \/ StepDialogDelete
  \/ StepDialogDeleteResponse

SpecDialog == Init /\ [][NextDialog]_vars

\* the panel of one project while the subtasks of the selected step are edited
NextSubtasks ==
  \/ StepsResponse
  \/ SubtasksResponse
  \/ SelectSubtask
  \/ AddSubtask
  \/ AddSubtaskResponse
  \/ DeleteSubtask
  \/ DeleteResponse
  \/ UpdateSubtask
  \/ UpdateSubtaskResponse

SpecSubtasks == Init /\ [][NextSubtasks]_vars

\* the panel while steps and subtasks are created and deleted: a new step takes
\* the selection and a delete moves it, so the subtasks slice is read again for
\* another step while creates are pending
NextReload ==
  \/ StepsResponse
  \/ SubtasksResponse
  \/ AddStep
  \/ AddStepResponse
  \/ AddSubtask
  \/ AddSubtaskResponse
  \/ DeleteStep
  \/ DeleteSubtask
  \/ DeleteResponse

SpecReload == Init /\ [][NextReload]_vars

\* App while categories and projects are created, edited and deleted in the dialogs
NextCrud ==
  \/ LoadResponse
  \/ ProjectsResponse
  \/ NewCategory
  \/ OpenCategoryDialog
  \/ CloseCategoryDialog
  \/ SaveCategory
  \/ SaveCategoryResponse
  \/ DeleteCategory
  \/ DeleteCategoryResponse
  \/ NewProject
  \/ OpenProjectDialog
  \/ CloseProjectDialog
  \/ SaveProject
  \/ SaveProjectResponse
  \/ DeleteProject
  \/ DeleteProjectResponse

SpecCrud == Init /\ [][NextCrud]_vars

\* App with the category dialog and the KPI report
NextAdmin ==
  \/ LoadResponse
  \/ ProjectsResponse
  \/ SetProjectFilter
  \/ SelectCategory
  \/ OpenCategoryDialog
  \/ CloseCategoryDialog
  \/ DeleteCategory
  \/ DeleteCategoryResponse
  \/ OpenKpi
  \/ KpiResponse

SpecAdmin == Init /\ [][NextAdmin]_vars

\* the tokenizer and the filtered views, exercised through one search box
InitTokens == Init /\ focus = "panel"

NextTokens == SetSearchInput

SpecTokens == InitTokens /\ [][NextTokens]_vars

\* the tokenizer, exercised with every short text over four characters
NextChars == TypeChar

SpecChars == InitTokens /\ [][NextChars]_vars

\* the progress aggregate, asked for every small collection of items
ItemWeights == {NoWeight, 0, 1, 2, 3}

Coeffs == {0, 45, 50, 60, 100}

\* the collection grows by one item and the aggregate is recomputed
AppendItem ==
  \E status \in Statuses, weight \in ItemWeights :
    /\ Len(aggItems) < MaxItems
    /\ aggItems' = Append(aggItems, [status |-> status, weight |-> weight])
    /\ aggProgress' = Progress(aggItems', aggCoeff)
    /\ lastEv' = Ev("appendItem", FALSE, "none")
    /\ UNCHANGED << appVars, panelVars, searchVars, aggCoeff, focus >>

\* the coefficient of the owning project changes and the aggregate is recomputed
SetCoeff ==
  \E coeff \in Coeffs \ {aggCoeff} :
    /\ aggCoeff' = coeff
    /\ aggProgress' = Progress(aggItems, coeff)
    /\ lastEv' = Ev("setCoeff", FALSE, "none")
    /\ UNCHANGED << appVars, panelVars, searchVars, aggItems, focus >>

InitProgress == Init /\ focus = "panel"

NextProgress == AppendItem \/ SetCoeff

SpecProgress == InitProgress /\ [][NextProgress]_vars

\* ------------------------------------------------------------------ claims
\* a step list without the nested subtasks (those are the Subtasks slice, copied
\* into the selected step by the effect of lines 175-180) and the identity tags
Flat(ss) ==
  [i \in 1..Len(ss) |->
     [id |-> ss[i].id, order_index |-> ss[i].order_index, weight |-> ss[i].weight]]

LiveAnswer(kind) == lastEv'.kind = kind /\ ~lastEv'.stale

C5_StaleDiscarded ==
  [][ /\ (lastEv'.kind = "stepsResp" /\ lastEv'.stale) =>
           UNCHANGED << steps, stepError, loadingSteps >>
      /\ (lastEv'.kind = "subtasksResp" /\ lastEv'.stale) =>
           UNCHANGED << subtasks, subtaskError, loadingSubtasks >> ]_vars

\* a stale answer was dropped while the newer fetch is still awaited
C5_Witness ==
  /\ lastEv.kind = "stepsResp" /\ lastEv.stale
  /\ loadingSteps
  /\ stepSearch # << >>

\* C6: right after the answer to a fetch for the current filter and category was
\* applied to the Projects slice, the answer to the start-up read leaves it alone
C6_NoOverwrite ==
  [][ (lastEv.kind = "projectsResp" /\ ~lastEv.stale /\ lastEv.result = "remote"
       /\ lastEv'.kind = "loadResp")
        => projects' = projects ]_vars

\* temporary ids in the Steps slice whose createStep is no longer awaited: the
\* steps that were added locally only
FailedLocalSteps ==
  { id \in IdsOf(steps) :
      id < 0 /\ ~\E q \in persistReq : q.kind = "createStep" /\ q.id = id }

\* C3: a failed remote create leaves the optimistic entity in the slice with a
\* warning, and a later Steps fetch that fails or returns empty keeps every
\* step that was added locally only
C3_LocalEditKept ==
  [][ /\ lastEv'.kind \in {"addStepFail", "addSubtaskFail"} =>
           actionTone' = "warning" /\ steps' = steps /\ subtasks' = subtasks
      /\ (lastEv'.kind = "stepsResp" /\ lastEv'.result \in {"fail", "empty"}) =>
           \A id \in FailedLocalSteps : HasId(steps', id) ]_vars

Count(seq, id) == Cardinality({ i \in 1..Len(seq) : seq[i].id = id })

\* C4: right after a create is confirmed for the slice it was made in (the user
\* did not delete the entity meanwhile), the slice holds the authoritative
\* entity exactly once and nothing under the temporary id
C4_ConfirmedOnce ==
  /\ (lastEv.kind = "addStepOk" /\ ~lastEv.stale) =>
        Count(steps, lastEv.id) = 1 /\ ~HasId(steps, lastEv.temp)
  /\ (lastEv.kind = "addSubtaskOk" /\ ~lastEv.stale) =>
        Count(subtasks, lastEv.id) = 1 /\ ~HasId(subtasks, lastEv.temp)

\* C7: an optimistic subtask create on a slice of n subtasks appends one entity
\* with order_index n+1 and keeps the others, and a confirmation neither adds nor
\* removes an entity; so two creates in a row give n+1 and n+2 whether or not
\* the first was confirmed in between
C7_SequentialCreates ==
  [][ /\ lastEv'.kind = "addSubtask" =>
           /\ Len(subtasks') = Len(subtasks) + 1
           /\ subtasks'[Len(subtasks')].order_index = Len(subtasks) + 1
           /\ SubSeq(subtasks', 1, Len(subtasks)) = subtasks
      /\ lastEv'.kind \in {"addSubtaskOk", "addSubtaskFail"} =>
           Len(subtasks') = Len(subtasks) ]_vars

\* two creates in a row, none confirmed yet: the new entities hold n+1 and n+2
C7_Witness ==
  /\ lastEv.kind = "addSubtask"
  /\ Cardinality({ q \in persistReq : q.kind = "createSubtask" }) = 2
  /\ Len(subtasks) >= 2
  /\ subtasks[Len(subtasks) - 1].id < 0
  /\ subtasks[Len(subtasks) - 1].order_index = Len(subtasks) - 1
  /\ subtasks[Len(subtasks)].order_index = Len(subtasks)

\* the order_index values of a list are exactly 1..k
Dense(seq) == { seq[i].order_index : i \in 1..Len(seq) } = 1..Len(seq)

\* C8: right after a step was deleted from the toolbar or from the step dialog,
\* the order_index values of the remaining steps are exactly 1..k
C8_DenseAfterDelete ==
  lastEv.kind \in {"deleteStep", "dialogDeleteOk"} => Dense(steps)

\* C9: an optimistic subtask create or delete on a slice whose order_index
\* values are exactly 1..n leaves them exactly 1..m
C9_SubtasksDense ==
  [][ (lastEv'.kind \in {"addSubtask", "deleteSubtask"} /\ Dense(subtasks))
        => Dense(subtasks') ]_vars

\* C10: every step and subtask held in a slice has a positive weight (a step
\* may have none)
C10_WeightsPositive ==
  /\ \A i \in 1..Len(steps) :
       /\ steps[i].weight # NoWeight => steps[i].weight > 0
       /\ \A j \in 1..Len(steps[i].subtasks) : steps[i].subtasks[j].weight > 0
  /\ \A j \in 1..Len(subtasks) : subtasks[j].weight > 0
\* C11: no project of a category the backend has deleted is held in the projects
\* slice, in any state after the delete succeeded
C11_DeletedCategoryGone ==
  \A i \in 1..Len(projects) : projects[i].category_id \notin deletedCategories

\* the user changed a parameter of the Projects slice
ProjectsParamChanged ==
  /\ lastEv'.kind = "param"
  /\ projectFilter' # projectFilter \/ selectedCategoryId' # selectedCategoryId

\* a read for the current parameters of the Projects slice is awaited
ProjectsReadIssued ==
  \E req \in projectsReq : req.mounted /\ req.q = ProjectQuery(AppCur)

\* C19: when the start-up read of the projects answered a non-empty list the
\* Projects slice shows it and no advisory is set, whatever the other start-up
\* requests did; and after a failed KPI request a change of the filter text or of
\* the selected category still issues a projects read
C19_OwnReadDecides ==
  [][ /\ (lastEv'.kind = "loadResp" /\ lastEv'.result = "remote") =>
           (projects' = Filtered(EmptyQuery) /\ ~error')
      /\ (lastEv.kind = "kpiResp" /\ lastEv.result = "fail" /\ ProjectsParamChanged) =>
           ProjectsReadIssued' ]_vars

\* the user changed a parameter of the Steps slice
StepsParamChanged ==
  /\ lastEv'.kind = "param"
  /\ \/ project' # project \/ stepSearch' # stepSearch
     \/ stepStatusFilter' # stepStatusFilter \/ stepAssigneeFilter' # stepAssigneeFilter

\* C20: a change of a parameter of the Projects slice or of the Steps slice issues
\* a read for the new parameters, in every state
C20_ParamChangeReads ==
  [][ /\ ProjectsParamChanged => ProjectsReadIssued'
      /\ StepsParamChanged =>
           \E req \in stepsReq' : req.mounted /\ req.q = StepQuery(Cur)' /\ req.pid = project' ]_vars
\* the status parameter of a steps or subtasks read as a text: the value of the
\* status dropdown, nothing for "all"
StatusParam(v) ==
  CASE v = "todo" -> Todo [] v = "in_progress" -> InProgress [] v = "done" -> Done
    [] OTHER -> << >>

\* C12: for every read of Projects, Steps and Subtasks the search parameter sent
\* is the residual text parseTokens leaves of the typed input, and the value of a
\* status token is sent as the status parameter
C12_ResidualSent ==
  /\ sent.projects.search = parseResult.text
  /\ sent.projects.status = parseResult.status
  /\ sent.steps.search = parseResult.text
  /\ sent.subtasks.search = parseResult.text
  /\ parseResult.status # << >> =>
        /\ StatusParam(sent.steps.status) = parseResult.status
        /\ StatusParam(sent.subtasks.status) = parseResult.status

StatusInProgress == << "s", "t", "a", "t", "u", "s", ":" >> \o InProgress

\* the text  oven status:in_progress weight>0.5
OvenQuery ==
  Oven \o << " " >> \o StatusInProgress
       \o << " ", "w", "e", "i", "g", "h", "t", ">", "0", ".", "5" >>

\* the text  oven status:in_progress weight:>0.5
OvenColonQuery ==
  Oven \o << " " >> \o StatusInProgress
       \o << " ", "w", "e", "i", "g", "h", "t", ":", ">", "0", ".", "5" >>

\* the weight of a step, 1 when it has none
WeightOrOne(row) == IF row.weight = NoWeight THEN 10 ELSE row.weight

\* name and description contain "oven" in any case, the status is in_progress
\* and the weight is above 0.5
OvenInProgressHeavy(step) ==
  /\ includes(toLowerCase(step.name \o << " " >> \o step.description), Oven)
  /\ step.status = InProgress
  /\ WeightOrOne(step) > 5

\* C13 as stated: the query "oven status:in_progress weight>0.5" shows only steps
\* that contain "oven", are in_progress and weigh more than 0.5
C13_OvenQuery ==
  Joined(searchInput) = OvenQuery =>
    \A i \in 1..Len(shown.steps) : OvenInProgressHeavy(shown.steps[i])

\* C13 amended: the query "oven status:in_progress weight:>0.5", with the colon
\* the token grammar asks for, shows only steps that contain "oven", are
\* in_progress and weigh more than 0.5; a step of weight 0.5 is not shown
C13_OvenColonQuery ==
  Joined(searchInput) = OvenColonQuery =>
    \A i \in 1..Len(shown.steps) : OvenInProgressHeavy(shown.steps[i])

C13_Witness ==
  /\ Joined(searchInput) = OvenColonQuery
  /\ shown.steps = << FixtureSteps[1] >>
  /\ FixtureSteps[2].weight = 5 /\ OvenInProgressHeavy([FixtureSteps[2] EXCEPT !.weight = 8])

\* the text  has:files
HasFilesQuery == << "h", "a", "s", ":", "f", "i", "l", "e", "s" >>

\* C14: the query "has:files" leaves an empty plain-text term and a project list
\* that holds only projects with at least one attachment
C14_HasFiles ==
  Joined(searchInput) = HasFilesQuery =>
    /\ parseResult.text = << >>
    /\ \A i \in 1..Len(shown.projects) : shown.projects[i].attachments > 0

Cyrillic == << "U+0414", "U+0443", "U+0445", "U+043E", "U+0432", "U+043E", "U+0439" >>

\* the text of the example: two blanks, the Cyrillic word, three blanks,
\* status:todo, two blanks
PaddedQuery ==
  << " ", " " >> \o Cyrillic \o << " ", " ", " " >>
    \o << "s", "t", "a", "t", "u", "s", ":" >> \o Todo \o << " ", " " >>

\* a key:value token is left in t: a colon with a word character before it and a
\* character that is not white space after it
TokenLeft(t) ==
  \E i \in 2..(Len(t) - 1) : t[i] = ":" /\ InClass(t[i - 1], "word") /\ InClass(t[i + 1], "notspace")

\* C15: for every input parseTokens removes every key:value token, whatever its
\* key, and the plain-text term has no white space at either end and no run of two
\* or more white space characters; the padded example yields the bare word
C15_TermClean ==
  /\ parseResult = parseTokens(Joined(searchInput))
  /\ ~TokenLeft(parseResult.text)
  /\ Len(parseResult.text) > 0 =>
        InClass(parseResult.text[1], "notspace") /\ InClass(parseResult.text[Len(parseResult.text)], "notspace")
  /\ \A i \in 1..(Len(parseResult.text) - 1) :
        ~(InClass(parseResult.text[i], "space") /\ InClass(parseResult.text[i + 1], "space"))
  /\ Joined(searchInput) = PaddedQuery => parseResult.text = Cyrillic

C15_Witness ==
  /\ Joined(searchInput) = PaddedQuery
  /\ parseResult.text = Cyrillic
  /\ parseResult.status = Todo

\* the row satisfies the weight comparison of the parsed query
WeightHolds(row) ==
  CompareWeight(WeightOrOne(row), parseResult.weightComparator, parseResult.weightValue)

\* C16: for a query with a token weight:<op><n>, n any decimal, 0 included, every
\* step and subtask shown satisfies weight op n, a step without weight counting
\* as weight 1
C16_WeightFilter ==
  (parseResult.weightComparator # "none" /\ parseResult.weightValue.kind = "number") =>
    /\ \A i \in 1..Len(shown.steps) : WeightHolds(shown.steps[i])
    /\ \A i \in 1..Len(shown.subtasks) : WeightHolds(shown.subtasks[i])

\* the positions, among the key:value tokens ms of the text t, of those whose
\* key is "status" in any letter case
StatusTokens(t, ms) ==
  { k \in 1..Len(ms) :
      toLowerCase(SubSeq(t, ms[k].first, ms[k].colon - 1)) = << "s", "t", "a", "t", "u", "s" >> }

\* every project, step and subtask shown has the status v, compared without
\* regard to letter case
ShownHaveStatus(v) ==
  /\ \A i \in 1..Len(shown.projects) : toLowerCase(shown.projects[i].status) = toLowerCase(v)
  /\ \A i \in 1..Len(shown.steps) : toLowerCase(shown.steps[i].status) = toLowerCase(v)
  /\ \A i \in 1..Len(shown.subtasks) : toLowerCase(shown.subtasks[i].status) = toLowerCase(v)

\* the items shown have the status of each of the tokens ks of the text t
EveryStatusHolds(t, ms, ks) ==
  \A k \in ks : ShownHaveStatus(SubSeq(t, ms[k].colon + 1, ms[k].last))

\* the items shown have the status of the last of the tokens ks of the text t
LastStatusHolds(t, ms, ks) ==
  ks # {} =>
    \E k \in ks : /\ \A j \in ks : j <= k
                  /\ ShownHaveStatus(SubSeq(t, ms[k].colon + 1, ms[k].last))

\* C17 as stated: for every status:<value> the query contains, an item is shown
\* only if its status equals <value> without regard to letter case
C17_StatusFilter ==
  EveryStatusHolds(Joined(searchInput), ExecAll(Joined(searchInput), 1),
                   StatusTokens(Joined(searchInput), ExecAll(Joined(searchInput), 1)))

\* C17 amended: an item is shown only if its status equals, without regard to
\* letter case, the value of the last status token of the query; the key is
\* recognized in any letter case
C17_LastStatusFilter ==
  LastStatusHolds(Joined(searchInput), ExecAll(Joined(searchInput), 1),
                  StatusTokens(Joined(searchInput), ExecAll(Joined(searchInput), 1)))

C17_Witness ==
  /\ Joined(searchInput) = << "S", "T", "A", "T", "U", "S", ":", "D", "o", "n", "e" >>
  /\ shown.steps = << FixtureSteps[4] >>
  /\ shown.subtasks = << FixtureSubtasks[2] >>
  /\ Len(shown.projects) = 1 /\ shown.projects[1].status = Done

\* the text  owner:ANN
OwnerAnnQuery == << "o", "w", "n", "e", "r", ":", "A", "N", "N" >>

\* C18: a projects read carries the id of the PM directory entry whose name
\* equals the value of the owner token without regard to letter case ("ANN" is
\* entry 7, "Ann", of the fetched directory), and no owner_id when no entry
\* matches or the filter has no owner token
C18_OwnerResolved ==
  \A req \in projectsReq :
    req.mounted =>
      req.q.owner_id = (IF projectFilter = OwnerAnnQuery /\ pmDirectory = "fetched"
                        THEN 7 ELSE Null)

C18_Witness ==
  /\ projectFilter = OwnerAnnQuery
  /\ pmDirectory = "fetched"
  /\ \E req \in projectsReq : req.mounted /\ req.q.owner_id = 7 /\ req.q.search = << >>

\* C21 (safety part): a loading flag is true only while a fetch of that slice is
\* in flight whose answer will be applied, also after the selected step is gone
\* while a subtasks fetch was pending
C21_LoadingHasFetch ==
  /\ loadingSteps => \E req \in stepsReq : req.mounted
  /\ loadingSubtasks => \E req \in subtasksReq : req.mounted

\* C22: an update of a step through the StepDialog shows in the steps slice as
\* soon as the remote call is issued, before it resolves, and is still shown
\* when the remote call fails
C22_AppliedBeforeRemote ==
  [][ /\ \A req \in persistReq' \ persistReq :
           req.kind = "updateStep" =>
             \A i \in 1..Len(steps') : steps'[i].id = req.id => steps'[i].weight = req.w
      /\ \A req \in persistReq \ persistReq' :
           req.kind = "updateStep" /\ lastEv'.kind = "updateStepFail" =>
             \A i \in 1..Len(steps') : steps'[i].id = req.id => steps'[i].weight = req.w ]_vars

\* the step a subtask was read for (GET /steps/{id}/subtasks) or is seeded under:
\* the ids of the subtasks of step s are s * 10 + k
StepOf(st) == st.id \div 10

\* C23: when the subtasks slice is ready for the selected step S, every subtask
\* of the slice and every subtask stored under S in the steps slice belongs to S
C23_SubtasksOfSelected ==
  (~loadingSubtasks /\ SelectedStepIdx(Cur) # 0) =>
     /\ \A i \in 1..Len(subtasks) : StepOf(subtasks[i]) = selectedStepId
     /\ LET own == steps[SelectedStepIdx(Cur)].subtasks
        IN  \A i \in 1..Len(own) : StepOf(own[i]) = selectedStepId

\* C24: a slice that holds fallback data because its latest completed fetch
\* failed or answered with an empty list has its advisory set
C24_StepsAdvised ==
  /\ (lastEv.kind = "stepsResp" /\ lastEv.result \in {"fail", "empty"}) => stepError # "none"
  /\ (lastEv.kind = "subtasksResp" /\ lastEv.result \in {"fail", "empty"}) => subtaskError # "none"

C24_ProjectsAdvised ==
  (lastEv.kind = "projectsResp" /\ lastEv.result \in {"fail", "empty"}) => error

\* C24: the projects, steps and subtasks slices all raise the advisory when they
\* hold fallback data after a failed or empty fetch
C24_FallbackAdvised == C24_StepsAdvised /\ C24_ProjectsAdvised

\* C25: applying the answer of a steps or subtasks fetch issues no further read
\* of the same slice
C25_StepsQuiet ==
  [][ lastEv'.kind = "stepsResp" =>
        { req \in stepsReq' : req.mounted } \subseteq stepsReq ]_vars

C25_SubtasksQuiet ==
  [][ lastEv'.kind = "subtasksResp" =>
        { req \in subtasksReq' : req.mounted } \subseteq subtasksReq ]_vars

\* C25: neither a steps answer nor a subtasks answer triggers a read of its own
\* slice
C25_NoReadAfterAnswer == C25_StepsQuiet /\ C25_SubtasksQuiet

\* the credit the rule gives a status: Done 1, InProgress the coefficient,
\* Todo and Blocked 0
RuleCredit(status, coeff) ==
  IF status = "done" THEN 100 ELSE IF status = "in_progress" THEN coeff ELSE 0

RECURSIVE RuleSum(_, _, _, _)
\* sum of w_i * c_i over items[1..n], or of w_i when credited is FALSE
RuleSum(items, coeff, n, credited) ==
  IF n = 0 THEN 0
  ELSE LET w == IF items[n].weight \in {NoWeight, 0} THEN 1 ELSE items[n].weight
       IN  RuleSum(items, coeff, n - 1, credited)
             + (IF credited THEN w * RuleCredit(items[n].status, coeff) ELSE w)

\* p is x rounded half up, for x = num / den:  p <= x + 1/2 < p + 1
IsRoundHalfUp(p, num, den) ==
  /\ 2 * p * den <= 2 * num + den
  /\ 2 * num + den < 2 * (p + 1) * den

\* C28: the progress of a non-empty collection is
\* round-half-up(100 * sum(w_i * c_i) / sum(w_i)) and lies in 0..100
C28_WeightedMean ==
  Len(aggItems) > 0 =>
    /\ IsRoundHalfUp(aggProgress, RuleSum(aggItems, aggCoeff, Len(aggItems), TRUE),
                     RuleSum(aggItems, aggCoeff, Len(aggItems), FALSE))
    /\ 0 <= aggProgress /\ aggProgress <= 100

\* an in-progress item and a todo item of weight 1 at coefficient 0.45: 22.5 rounds to 23
C28_Witness ==
  /\ Len(aggItems) = 2 /\ aggCoeff = 45
  /\ aggItems[1].status = "in_progress" /\ aggItems[1].weight = 0
  /\ aggItems[2].status = "todo" /\ aggItems[2].weight = NoWeight
  /\ aggProgress = 23

\* C30: a non-empty collection all of whose items are done has progress 100,
\* whatever the weights and the coefficient
C30_AllDone ==
  (Len(aggItems) > 0 /\ \A i \in 1..Len(aggItems) : aggItems[i].status = "done") =>
     aggProgress = 100

C30_Witness ==
  /\ Len(aggItems) = 2 /\ aggCoeff = 0
  /\ aggItems[1].status = "done" /\ aggItems[1].weight = 2
  /\ aggItems[2].status = "done" /\ aggItems[2].weight = 3
  /\ aggProgress = 100

\* C29: a step with no subtasks has progress 0 and a project with no steps has
\* progress 0
C29_EmptyIsZero ==
  /\ \A i \in 1..Len(steps) :
       Len(steps[i].subtasks) = 0 => steps[i].progress_percent = 0
  /\ \A i \in 1..Len(projects) :
       /\ Len(projects[i].steps) = 0 => projects[i].progress_percent = 0
       /\ \A j \in 1..Len(projects[i].steps) :
            Len(projects[i].steps[j].subtasks) = 0 => projects[i].steps[j].progress_percent = 0

\* C26: the progress of every project of the projects slice is the aggregate of
\* its current steps under the project's coefficient
C26_ProjectProgressDerived ==
  \A i \in 1..Len(projects) :
    projects[i].progress_percent = Progress(projects[i].steps, projects[i].inprogress_coeff)

\* C27: in the turn of an optimistic subtask mutation the progress of the
\* selected step is the aggregate over the subtasks the slice now holds
C27_StepProgressFollows ==
  [][ (lastEv'.kind \in {"addSubtask", "deleteSubtask", "updateSubtask"}
         /\ SelectedStepIdx(Cur)' # 0) =>
        steps'[SelectedStepIdx(Cur)'].progress_percent
          = Progress(subtasks', inprogress_coeff(project')) ]_vars

NoInProgress(items) == \A i \in 1..Len(items) : items[i].status # "in_progress"

\* C31: a change of the coefficient leaves the credit of done at 1 and of todo
\* and blocked at 0, so the progress of a collection without an in-progress
\* item stays what it was
C31_CoeffOnlyInProgress ==
  [][ (aggCoeff' # aggCoeff /\ aggItems' = aggItems) =>
        /\ buildProgress("done", aggCoeff') = 100
        /\ buildProgress("todo", aggCoeff') = 0
        /\ buildProgress("blocked", aggCoeff') = 0
        /\ NoInProgress(aggItems) => aggProgress' = aggProgress ]_vars

\* the coefficient went from 0.5 to 0.45 under a done and a blocked item
C31_Witness ==
  /\ lastEv.kind = "setCoeff" /\ aggCoeff = 45
  /\ Len(aggItems) = 2
  /\ aggItems[1].status = "done" /\ aggItems[1].weight = 1
  /\ aggItems[2].status = "blocked" /\ aggItems[2].weight = 1
  /\ aggProgress = 50

\* C32: in the seed snapshot the progress of every step that has subtasks is the
\* aggregate of its subtasks under the in-progress coefficient of its project
C32_SeedStepsUseProjectCoeff ==
  \A i \in 1..Len(projects) :
    projects[i].steps = PropSteps(projects[i].id) =>
      \A j \in 1..Len(projects[i].steps) :
        LET step == projects[i].steps[j]
        IN  Len(step.subtasks) > 0 =>
              step.progress_percent = Progress(step.subtasks, projects[i].inprogress_coeff)

PendingCreates == { q \in persistReq : q.kind \in {"createStep", "createSubtask"} }

\* C33: the optimistic creates pending at the same time have distinct temporary
\* ids, and every temporary id is negative
C33_TempIdsDistinct ==
  /\ \A q1 \in PendingCreates, q2 \in PendingCreates : q1 # q2 => q1.id # q2.id
  /\ \A q \in PendingCreates : q.id < 0

\* C34: deleting the selected step leaves the subtasks held under every
\* remaining step as they were, the step selected next included
C34_DeleteKeepsSubtasks ==
  [][ lastEv'.kind = "deleteStep" =>
        \A i \in 1..Len(steps), j \in 1..Len(steps') :
          steps[i].id = steps'[j].id => steps'[j].subtasks = steps[i].subtasks ]_vars

\* the read of the steps of the project shown now has been answered
StepsReloaded == ~loadingSteps /\ \A f \in stepsReq : ~StepsFetchLive(f)

\* the read of the subtasks of the step selected now has been answered
SubtasksReloaded == ~loadingSubtasks /\ \A f \in subtasksReq : ~SubtasksFetchLive(f)

\* C35: a create confirmation, success or failure, that arrives after the slice
\* was reloaded for another project or step leaves the entities of that slice
\* as they were and the selection on an entity of the slice or on none
C35_LateConfirmationHarmless ==
  [][ \A req \in persistReq \ persistReq' :
        /\ (req.kind = "createStep" /\ req.key # project /\ StepsReloaded
              /\ lastEv'.kind \in {"addStepOk", "addStepFail"}) =>
             /\ Flat(steps') = Flat(steps)
             /\ selectedStepId' = Null \/ HasId(steps', selectedStepId')
        /\ (req.kind = "createSubtask" /\ req.key # selectedStepId /\ SubtasksReloaded
              /\ lastEv'.kind \in {"addSubtaskOk", "addSubtaskFail"}) =>
             /\ subtasks' = subtasks
             /\ selectedSubtaskId' = Null \/ HasId(subtasks', selectedSubtaskId') ]_vars

\* C36: once the effects have run, selectedStepId is null exactly when the steps
\* slice is empty and is otherwise the id of one of its steps, and
\* selectedSubtaskId is null exactly when the subtasks slice is empty and is
\* otherwise the id of one of its subtasks
C36_SelectionInSlice ==
  /\ (selectedStepId = Null) <=> (Len(steps) = 0)
  /\ selectedStepId # Null => HasId(steps, selectedStepId)
  /\ (selectedSubtaskId = Null) <=> (Len(subtasks) = 0)
  /\ selectedSubtaskId # Null => HasId(subtasks, selectedSubtaskId)

\* a confirmation of a step deleted meanwhile selected an id that is not in
\* the slice; the selection effect moved it to the first step
C36_Witness ==
  /\ lastEv.kind = "addStepOk"
  /\ lastEv.stale
  /\ selectedStepId = FirstId(steps)
  /\ selectedStepId # Null

\* C40: once the effects have run, the selected project, when there is one, is
\* one of the projects and belongs to the selected category, and the selected
\* category, when categories exist, is one of them
C40_AppSelectionValid ==
  /\ selectedProjectId # Null =>
       \E i \in 1..Len(projects) : /\ projects[i].id = selectedProjectId
                                   /\ projects[i].category_id = selectedCategoryId
  /\ Len(categories) > 0 => Member(categories, selectedCategoryId)

\* the answers of the calls the category and project dialogs await
AdminAnswers ==
  {"saveCategoryResp", "deleteCategoryResp", "saveProjectResp", "deleteProjectResp"}

\* C37: when the remote call of a category or project create, update or delete
\* fails, the categories, the projects and the selected category and project
\* ids are unchanged, and the failure reaches the dialog that made the call:
\* it stays open and shows its error
C37_FailureLeavesCollections ==
  [][ (lastEv'.kind \in AdminAnswers /\ lastEv'.result = "fail") =>
        /\ categories' = categories
        /\ projects' = projects
        /\ selectedCategoryId' = selectedCategoryId
        /\ selectedProjectId' = selectedProjectId
        /\ showCategoryDialog' = showCategoryDialog
        /\ showProjectDialog' = showProjectDialog
        /\ (adminReq # NoAdminReq /\ adminReq' = NoAdminReq /\ ~adminReq.closed) => dialogError'
        /\ (categoryReq # Null /\ categoryReq' = Null /\ editingCategory = categoryReq)
             => dialogError' ]_vars

\* a project update was rejected while its dialog was open
C37_Witness ==
  /\ lastEv.kind = "saveProjectResp"
  /\ lastEv.result = "fail"
  /\ lastEv.id # Null
  /\ showProjectDialog
  /\ dialogError

\* C38: the text parseTokens leaves is a fixed point: parsed again it comes
\* back as it is and yields no status, owner, assignee, has or weight predicate
C38_ResidualIsFixedPoint ==
  LET again == parseTokens(parseResult.text)
  IN  /\ again.text = parseResult.text
      /\ Len(ExecAll(parseResult.text, 1)) = 0
      /\ again.status = << >>
      /\ again.owner = << >>
      /\ again.assignee = << >>
      /\ ~again.hasFiles
      /\ again.weightComparator = "none"
      /\ again.weightValue = undefined

\* a token was taken out of a text and a colon was left
C38_Witness ==
  /\ lastEv.kind = "search"
  /\ Len(ExecAll(Joined(searchInput), 1)) > 0
  /\ \E i \in 1..Len(parseResult.text) : parseResult.text[i] = ":"

\* C39: a call of parseTokens answers what it answers for its input alone,
\* whatever was parsed before it: the shared lastIndex is back at 0 after
\* every call
C39_CallsIndependent ==
  [][ lastEv'.kind = "search" =>
        /\ parseResult' = parseTokens(Joined(searchInput'))
        /\ lastIndex' = 0 ]_vars

\* a text with tokens is parsed after another text with tokens was
C39_Witness ==
  /\ lastEv.kind = "search"
  /\ Len(searchInput) > 1
  /\ Len(ExecAll(Joined(SubSeq(searchInput, 1, Len(searchInput) - 1)), 1)) > 0
  /\ Len(ExecAll(Joined(searchInput), 1)) > 1
  /\ lastIndex = 0

====
